---------------------------- MODULE Spec2Model ----------------------------
(***************************************************************************)
(* Orphaned network-interface (ENI) detection and cleanup.                 *)
(*                                                                         *)
(* The module models five pieces of the repository:                        *)
(*   - the TypeScript classifier isLikelyOrphaned and the tag/age filter   *)
(*     of cleanupENIs, and the per-interface filter of the Go provider's   *)
(*     DetectOrphanedENIs, as operators, exercised by SpecFn;              *)
(*   - the TypeScript cleanupENIs function, exercised by SpecTS;           *)
(*   - the Go provider resource (Create / Update / Delete, which run       *)
(*     DetectOrphanedENIs and CleanupOrphanedENIs against the cloud),      *)
(*     as a step machine, specification Spec;                              *)
(*   - CleanupOrphanedENIs called on its own, with candidates of any group *)
(*     set and a context that may be cancelled, specification SpecCl       *)
(*     (FairSpecCl with the fairness of its sequential loops);             *)
(*   - the generated destroy-time bash scripts, specification SpecSh.      *)
(*                                                                         *)
(* Text is modelled as a sequence of one-character strings, so that        *)
(* substring and prefix tests are computed, not assumed.                   *)
(***************************************************************************)
EXTENDS Integers, Sequences, FiniteSets, TLC

VARIABLES
    fnIn,       \* pure-function harness: the interface and options under test
    fnOut,      \* pure-function harness: the results computed so far
    fnPc,       \* pure-function harness: which function is applied next
    tsIn,       \* cleanupENIs: the arguments of the call (enis, options)
    tsOut,      \* cleanupENIs: the CleanupResult being built / returned
    tsPc,       \* cleanupENIs: "call" before the call, "returned" after it
    cloud,      \* provider: the network interfaces, by id
    cloud0,     \* history: the provider state when the running operation began
    resource,   \* engine: "absent", "created" or "deleted" cleanup resource
    state,      \* engine: the ResourceState stored for the resource
    op,         \* the operation running or last run, with its preview flag
    input,      \* the arguments in effect for that operation
    pc,         \* position of the running operation ("idle" between operations)
    orphanedENIs, \* the candidates DetectOrphanedENIs returned
    todo,       \* CleanupOrphanedENIs: regions of enisByRegion not yet visited
    regionENIs, \* CleanupOrphanedENIs: candidates of the region left to process
    local,      \* CleanupOrphanedENIs: newGroups, targetSG, actionTaken
    result,     \* CleanupOrphanedENIs: the CleanupResult being built
    calls,      \* history: the provider calls the operation issued, in order
    regionErrs, \* history: regions whose client or listing failed in the operation
    ret,        \* what the operation returned
    faults,     \* history: how many provider calls have failed so far
    prevRun,    \* history: summary of the operation that ran before this one
    ctxDone,    \* the operation's context has been cancelled or has expired
    shIn,       \* cleanup script: the generator, its dryRun argument, the shell's environment
    shScript,   \* cleanup script: the script the generator returned
    shPc,       \* cleanup script: position of the running script
    shTodo,     \* cleanup script: regions of the for loop still to scan
    shENIs      \* cleanup script: interfaces of the while loop still to process

fnVars == <<fnIn, fnOut, fnPc>>
tsVars == <<tsIn, tsOut, tsPc>>

goVars == <<cloud, cloud0, resource, state, op, input, pc, orphanedENIs, todo,
           regionENIs, local, result, calls, regionErrs, ret, faults, prevRun,
           ctxDone>>

shVars == <<shIn, shScript, shPc, shTodo, shENIs>>

vars == <<fnIn, fnOut, fnPc, tsIn, tsOut, tsPc, cloud, cloud0, resource, state,
          op, input, pc, orphanedENIs, todo, regionENIs, local, result, calls,
          regionErrs, ret, faults, prevRun, ctxDone, shIn, shScript, shPc, shTodo,
          shENIs>>

\* The parts of the state a specification does not use stay at these values.
FnUnused == fnIn = <<>> /\ fnOut = <<>> /\ fnPc = "unused"
TsUnused == tsIn = <<>> /\ tsOut = <<>> /\ tsPc = "unused"
ShUnused ==
    /\ shIn = <<>> /\ shScript = <<>> /\ shPc = "unused" /\ shTodo = <<>>
    /\ shENIs = <<>>

GoUnused ==
    /\ cloud = <<>> /\ cloud0 = <<>> /\ resource = "unused" /\ state = <<>>
    /\ op = <<>> /\ input = <<>> /\ pc = "unused" /\ orphanedENIs = <<>>
    /\ todo = {} /\ regionENIs = <<>> /\ local = <<>> /\ result = <<>>
    /\ calls = <<>> /\ regionErrs = {} /\ ret = <<>> /\ faults = 0
    /\ prevRun = <<>> /\ ctxDone = FALSE

(***************************************************************************)
(* Text                                                                    *)
(***************************************************************************)

\* String.prototype.includes / strings.Contains: sub occurs in s as a
\* contiguous run of characters.
Contains(s, sub) ==
    \E i \in 0..(Len(s) - Len(sub)) : SubSeq(s, i + 1, i + Len(sub)) = sub

\* String.prototype.startsWith
StartsWith(s, p) ==
    Len(p) <= Len(s) /\ SubSeq(s, 1, Len(p)) = p

T_ELB == <<"E","L","B">>
T_AmazonEKS == <<"A","m","a","z","o","n"," ","E","K","S">>
T_AWSmgmt == <<"A","W","S","-","m","g","m","t">>
T_AWSmanaged == <<"A","W","S"," ","m","a","n","a","g","e","d">>
T_NATGateway == <<"N","A","T"," ","G","a","t","e","w","a","y">>
T_KubernetesIo == <<"K","u","b","e","r","n","e","t","e","s",".","i","o">>
T_k8sCluster == <<"k","u","b","e","r","n","e","t","e","s",".","i","o","/","c","l","u","s","t","e","r","/">>
T_terraform == <<"t","e","r","r","a","f","o","r","m","-">>
T_pulumi == <<"p","u","l","u","m","i","-">>
T_temporary == <<"t","e","m","p","o","r","a","r","y">>
T_temp == <<"t","e","m","p">>
T_Name == <<"N","a","m","e">>
T_DoNotDelete == <<"D","o","N","o","t","D","e","l","e","t","e">>
T_Team == <<"T","e","a","m">>
T_vendor == <<"v","e","n","d","o","r">>
T_owned == <<"o","w","n","e","d">>
T_true == <<"t","r","u","e">>

\* Descriptions the provider may return.
D_TestENI == <<"T","e","s","t"," ","E","N","I">>
D_EKSENI == T_AmazonEKS \o <<" ","E","N","I">>
D_ELBapp == T_ELB \o <<" ","a","p","p">>
D_mgmt == <<"x"," ">> \o T_AWSmgmt
D_managed == T_AWSmanaged \o <<" ","i","f">>
D_NAT == <<"f","o","r"," ">> \o T_NATGateway
D_Kio == T_KubernetesIo \o <<"/","x">>
D_elbLower == <<"e","l","b","-","l","i","k","e">>
D_vendor == T_vendor \o <<" ","b","o","x">>

\* Tag keys and values the provider may return.
K_k8s == T_k8sCluster \o <<"c","1">>
K_tf == T_terraform \o <<"v","p","c">>
K_pulumi == T_pulumi \o <<"s","t","k">>
V_test == <<"t","e","s","t","-","1">>
V_tempname == <<"m","y","-">> \o T_temp \o <<"-","1">>

Statuses == {"available", "in-use", "attaching", "detaching"}

(***************************************************************************)
(* TypeScript classifier: eniCleanup.ts isLikelyOrphaned                   *)
(***************************************************************************)

\* const reservedDescriptions in isLikelyOrphaned
TSReservedDescriptions ==
    {T_ELB, T_AmazonEKS, T_AWSmgmt, T_AWSmanaged, T_NATGateway}

\* const orphanIndicators in isLikelyOrphaned
orphanIndicators == {T_k8sCluster, T_terraform, T_pulumi}

\* JavaScript truthiness of the values isLikelyOrphaned can return: the
\* function is typed boolean but `a || b` returns b itself, which is
\* undefined when there is no Name tag and '' when the Name tag is empty.
Truthy(v) == v = "true"

\* eni.tags['Name'] && (includes('temporary') || includes('temp'))
hasNameIndicatingTemporary(tags) ==
    IF T_Name \notin DOMAIN tags THEN "undefined"
    ELSE IF tags[T_Name] = <<>> THEN "emptystring"
    ELSE IF Contains(tags[T_Name], T_temporary) \/ Contains(tags[T_Name], T_temp)
         THEN "true" ELSE "false"

\* Object.keys(eni.tags).some(k => orphanIndicators.some(i => k.startsWith(i)))
hasOrphanIndicatorTags(tags) ==
    \E k \in DOMAIN tags : \E ind \in orphanIndicators : StartsWith(k, ind)

\* A faulty variant: only untagged available interfaces are orphaned.
isLikelyOrphaned_UntaggedOnly(eni) ==
    IF eni.status = "available"
       /\ ~(eni.hasDescription /\ eni.description # <<>>
            /\ \E d \in TSReservedDescriptions : Contains(eni.description, d))
       /\ (~eni.hasTags \/ DOMAIN eni.tags = {})
    THEN "true" ELSE "false"

isLikelyOrphaned(eni) ==
    IF eni.status = "available" THEN
        IF eni.hasDescription /\ eni.description # <<>>
           /\ \E d \in TSReservedDescriptions : Contains(eni.description, d)
        THEN "false"
        ELSE "true"
    ELSE IF eni.status = "detaching" THEN "false"
    ELSE IF eni.hasTags THEN
        IF hasOrphanIndicatorTags(eni.tags) THEN "true"
        ELSE hasNameIndicatingTemporary(eni.tags)
    ELSE "false"

(***************************************************************************)
(* Go provider: the per-interface filter of DetectOrphanedENIs (aws.go)    *)
(***************************************************************************)

\* reservedDescriptions := []string{...} in DetectOrphanedENIs
GoDefaultReservedDescriptions ==
    {T_ELB, T_AmazonEKS, T_AWSmgmt, T_NATGateway, T_KubernetesIo}

Range(seq) == {seq[i] : i \in 1..Len(seq)}

\* reservedDescriptions = append(reservedDescriptions, options.SkipReservedDescriptions...)
reservedDescriptions(options) ==
    GoDefaultReservedDescriptions \cup Range(options.SkipReservedDescriptions)

EmptyTags == [k \in {} |-> <<>>]

\* "Extract tags": the TagSet of the interface as a map
ExtractTags(eni) == IF eni.hasTags THEN eni.tags ELSE EmptyTags

\* "Skip ENIs with reserved descriptions"
shouldSkip(eni, options) ==
    /\ eni.hasDescription
    /\ \E reservedDesc \in reservedDescriptions(options) :
           Contains(eni.description, reservedDesc)

\* "Filter by include tag keys if specified": the interface is dropped
hasIncludeTag(tags, options) ==
    \E i \in 1..Len(options.IncludeTagKeys) : options.IncludeTagKeys[i] \in DOMAIN tags

\* "Filter by exclude tag keys if specified"
hasExcludeTag(tags, options) ==
    \E i \in 1..Len(options.ExcludeTagKeys) : options.ExcludeTagKeys[i] \in DOMAIN tags

\* A faulty variant: the reserved-description check is lost.
DetectKeeps_NoReserved(eni, options) ==
    LET tags == ExtractTags(eni) IN
    /\ (Len(options.IncludeTagKeys) > 0 => hasIncludeTag(tags, options))
    /\ (Len(options.ExcludeTagKeys) > 0 => ~hasExcludeTag(tags, options))

\* A faulty variant: the exclude list is applied only when no include list is given.
DetectKeeps_ExcludeElse(eni, options) ==
    LET tags == ExtractTags(eni) IN
    /\ ~shouldSkip(eni, options)
    /\ IF Len(options.IncludeTagKeys) > 0 THEN hasIncludeTag(tags, options)
       ELSE (Len(options.ExcludeTagKeys) > 0 => ~hasExcludeTag(tags, options))

\* The body of the loop "for _, eni := range enis" of DetectOrphanedENIs:
\* TRUE when the interface is appended to orphanedENIs.  The status of the
\* interface is never read ("Find all ENIs, not just available ones"), and
\* the age filter only logs.
DetectKeeps(eni, options) ==
    LET tags == ExtractTags(eni) IN
    /\ ~shouldSkip(eni, options)
    /\ (Len(options.IncludeTagKeys) > 0 => hasIncludeTag(tags, options))
    /\ (Len(options.ExcludeTagKeys) > 0 => ~hasExcludeTag(tags, options))

(***************************************************************************)
(* TypeScript cleanupENIs: the filter callback (eniCleanup.ts 123-166)     *)
(***************************************************************************)

\* Math.floor((Date.now() - createdDate.getTime()) / day), in whole days
ageInDays(now, createdTime) == now - createdTime

\* A faulty variant: the exclude-tag test is lost.
cleanupFilter_NoExclude(eni, o, now) ==
    IF Len(o.includeTagKeys) > 0
       /\ ~\E k \in DOMAIN eni.tags : k \in Range(o.includeTagKeys)
    THEN "include"
    ELSE IF o.olderThanDays > 0 /\ eni.createdTime # 0
            /\ ageInDays(now, eni.createdTime) < o.olderThanDays
    THEN "age"
    ELSE "keep"

\* What the filter callback decides for one candidate: "keep", or the
\* reason for which skippedCount is incremented and the candidate dropped.
\* createdTime = 0 stands for an absent (falsy) createdTime.
cleanupFilter(eni, o, now) ==
    IF Len(o.excludeTagKeys) > 0
       /\ \E k \in DOMAIN eni.tags : k \in Range(o.excludeTagKeys)
    THEN "exclude"
    ELSE IF Len(o.includeTagKeys) > 0
            /\ ~\E k \in DOMAIN eni.tags : k \in Range(o.includeTagKeys)
    THEN "include"
    ELSE IF o.olderThanDays > 0 /\ eni.createdTime # 0
            /\ ageInDays(now, eni.createdTime) < o.olderThanDays
    THEN "age"
    ELSE "keep"

(***************************************************************************)
(* SpecFn: the classifier and the two filters applied to every interface   *)
(* and every filter configuration of a bounded set                          *)
(***************************************************************************)

DescriptionTexts ==
    {D_TestENI, D_EKSENI, D_ELBapp, D_mgmt, D_managed, D_NAT, D_Kio,
     D_elbLower, D_vendor}

TagMaps ==
    { EmptyTags,
      (T_Name :> V_test),
      (T_Name :> V_tempname),
      (K_k8s :> T_owned),
      (K_tf :> T_owned) @@ (T_Name :> V_test),
      (K_pulumi :> T_owned),
      (T_DoNotDelete :> T_true),
      (T_DoNotDelete :> T_true) @@ (K_k8s :> T_owned) @@ (T_Team :> T_owned) }

\* The interfaces of the harness: every status, with or without a
\* description, with or without tags.
FnInterfaces ==
    { [status |-> st, hasDescription |-> d.has, description |-> d.text,
       hasTags |-> t.has, tags |-> t.map, createdTime |-> c] :
        st \in Statuses,
        d \in {[has |-> FALSE, text |-> <<>>]}
              \cup {[has |-> TRUE, text |-> x] : x \in DescriptionTexts},
        t \in {[has |-> FALSE, map |-> EmptyTags]}
              \cup {[has |-> TRUE, map |-> m] : m \in TagMaps},
        c \in {0, 2, 8} }

TagKeyLists ==
    { <<>>, <<T_DoNotDelete>>, <<T_Team, T_Name>> }

FnOptions ==
    { [SkipReservedDescriptions |-> s, IncludeTagKeys |-> i,
       ExcludeTagKeys |-> e, olderThanDays |-> a] :
        s \in {<<>>, <<T_vendor>>}, i \in TagKeyLists, e \in TagKeyLists,
        a \in {0, 5} }

\* The options object of cleanupENIs built from the same configuration
TSOptions(o) ==
    [includeTagKeys |-> o.IncludeTagKeys, excludeTagKeys |-> o.ExcludeTagKeys,
     olderThanDays |-> o.olderThanDays]

\* The OrphanedENI record detectOrphanedENIs builds: tags: eni.tags || {}
TSCandidate(eni) ==
    [tags |-> IF eni.hasTags THEN eni.tags ELSE EmptyTags,
     createdTime |-> eni.createdTime]

InitFn ==
    /\ fnIn \in [eni : FnInterfaces, options : FnOptions, now : {10}]
    /\ fnOut = [orphaned |-> "pending", detected |-> "pending", kept |-> "pending"]
    /\ fnPc = "isLikelyOrphaned"
    /\ TsUnused /\ GoUnused /\ ShUnused

ApplyIsLikelyOrphaned ==
    /\ fnPc = "isLikelyOrphaned"
    /\ fnOut' = [fnOut EXCEPT !.orphaned = isLikelyOrphaned(fnIn.eni)]
    /\ fnPc' = "DetectOrphanedENIs"
    /\ UNCHANGED <<fnIn, tsVars, goVars, shVars>>

ApplyDetectKeeps ==
    /\ fnPc = "DetectOrphanedENIs"
    /\ fnOut' = [fnOut EXCEPT !.detected =
                    IF DetectKeeps(fnIn.eni, fnIn.options) THEN "yes" ELSE "no"]
    /\ fnPc' = "cleanupENIs"
    /\ UNCHANGED <<fnIn, tsVars, goVars, shVars>>

ApplyCleanupFilter ==
    /\ fnPc = "cleanupENIs"
    /\ fnOut' = [fnOut EXCEPT !.kept =
                    cleanupFilter(TSCandidate(fnIn.eni), TSOptions(fnIn.options), fnIn.now)]
    /\ fnPc' = "done"
    /\ UNCHANGED <<fnIn, tsVars, goVars, shVars>>

NextFn == ApplyIsLikelyOrphaned \/ ApplyDetectKeeps \/ ApplyCleanupFilter

SpecFn == InitFn /\ [][NextFn]_vars

(***************************************************************************)
(* Claims about the classifier and the filters (checked under SpecFn)      *)
(***************************************************************************)

\* The markers the specification names as reserved for every implementation
NamedReservedMarkers == {T_ELB, T_AmazonEKS, T_AWSmgmt, T_NATGateway}

FnHasMarker(markers) ==
    /\ fnIn.eni.hasDescription
    /\ \E m \in markers : Contains(fnIn.eni.description, m)

FnNoFilters ==
    /\ fnIn.options.IncludeTagKeys = <<>>
    /\ fnIn.options.ExcludeTagKeys = <<>>
    /\ fnIn.options.olderThanDays = 0

\* C1: an interface whose status is not 'available' is never classified as
\* orphaned by isLikelyOrphaned and never kept as a candidate by detection,
\* whatever its description and tags.
C1_NonAvailableNeverCandidate ==
    fnIn.eni.status # "available" =>
        /\ ~Truthy(fnOut.orphaned)
        /\ fnOut.detected # "yes"

\* C2: an interface whose description contains a reserved marker (a named
\* one, or for the Go detection a user-supplied one) is never classified as
\* orphaned and never kept as a candidate, whatever its tags and status.
C2_ReservedNeverCandidate ==
    /\ FnHasMarker(NamedReservedMarkers) => ~Truthy(fnOut.orphaned)
    /\ FnHasMarker(NamedReservedMarkers
                   \cup Range(fnIn.options.SkipReservedDescriptions))
           => fnOut.detected # "yes"

FnTagKeys == DOMAIN ExtractTags(fnIn.eni)

FnExcludeHit ==
    /\ fnIn.options.ExcludeTagKeys # <<>>
    /\ FnTagKeys \cap Range(fnIn.options.ExcludeTagKeys) # {}

FnIncludeMiss ==
    /\ fnIn.options.IncludeTagKeys # <<>>
    /\ FnTagKeys \cap Range(fnIn.options.IncludeTagKeys) = {}

\* C4: with a non-empty excludeTagKeys every interface carrying one of its
\* keys is rejected, and with a non-empty includeTagKeys every interface
\* carrying none of its keys is rejected, by the Go detection and by the
\* filter of cleanupENIs, for every combination of the lists and tags.
C4_TagFiltersReject ==
    (FnExcludeHit \/ FnIncludeMiss) =>
        /\ fnOut.detected \in {"pending", "no"}
        /\ fnOut.kept \in {"pending", "exclude", "include"}

\* C4 witness: both lists are given, the interface carries an included key
\* and an excluded key and no reserved description, and both filters have
\* rejected it.
C4_Witness ==
    /\ fnPc = "done"
    /\ FnExcludeHit
    /\ fnIn.options.IncludeTagKeys # <<>> /\ ~FnIncludeMiss
    /\ ~shouldSkip(fnIn.eni, fnIn.options)
    /\ fnOut.detected = "no"
    /\ fnOut.kept = "exclude"

\* C5: with no include/exclude/age filter, an available interface whose
\* description contains no reserved marker is classified as orphaned, kept
\* by detection and kept by the cleanup filter, tagged or not.
C5_AvailableUnreservedIsOrphaned ==
    ( /\ fnIn.eni.status = "available"
      /\ ~FnHasMarker(TSReservedDescriptions \cup reservedDescriptions(fnIn.options))
      /\ FnNoFilters ) =>
        /\ fnOut.orphaned \in {"pending", "true"}
        /\ fnOut.detected \in {"pending", "yes"}
        /\ fnOut.kept \in {"pending", "keep"}

\* C5 witness: a tagged, available, unreserved interface has been
\* classified as orphaned.
C5_Witness ==
    /\ fnPc = "done"
    /\ fnIn.eni.status = "available"
    /\ fnIn.eni.description = D_TestENI
    /\ fnIn.eni.hasTags /\ K_k8s \in DOMAIN fnIn.eni.tags
    /\ FnNoFilters
    /\ fnOut.orphaned = "true"
    /\ fnOut.detected = "yes"

(***************************************************************************)
(* TypeScript cleanupENIs (eniCleanup.ts 95-240), specification SpecTS     *)
(***************************************************************************)

MaxCandidates == 2

\* const result: CleanupResult = {...}.  The type has no dryRunCount
\* field: reading it gives undefined.
NewCleanupResult ==
    [successCount |-> 0, failureCount |-> 0, skippedCount |-> 0,
     dryRunCount |-> "undefined", errors |-> <<>>, cleanedENIs |-> <<>>,
     failedENIs |-> <<>>]

\* result.dryRunCount += n on a number-or-undefined value
PlusAssign(v, n) == IF v \in {"undefined", "NaN"} THEN "NaN" ELSE v + n

\* cleanupENIs(enis, options).  thrown is the set of positions of the
\* filtered list whose try block throws (constructing the region provider
\* or logging), which the catch clause turns into a failure.
cleanupENIs(enis, options, now, thrown) ==
    IF Len(enis) = 0 THEN NewCleanupResult
    ELSE
      LET o == TSOptions(options)
          dryRun == options.dryRun
          Keep(eni) == cleanupFilter(eni, o, now) = "keep"
          filteredEnis == SelectSeq(enis, Keep)
          \* every rejected candidate did result.skippedCount++
          filtered == [NewCleanupResult EXCEPT
                          !.skippedCount = Len(enis) - Len(filteredEnis)]
          ok == {i \in 1..Len(filteredEnis) : i \notin thrown}
          ko == {i \in 1..Len(filteredEnis) : i \in thrown}
          Pick(set) == LET In(e) == \E i \in set : filteredEnis[i] = e
                       IN SelectSeq(filteredEnis, In)
      IN IF dryRun
         THEN [filtered EXCEPT
                 !.dryRunCount = PlusAssign(filtered.dryRunCount, Len(filteredEnis))]
         ELSE [filtered EXCEPT
                 !.successCount = Cardinality(ok),
                 !.cleanedENIs = Pick(ok),
                 !.failureCount = Cardinality(ko),
                 !.failedENIs = Pick(ko),
                 !.errors = [i \in 1..Cardinality(ko) |-> "Error"]]

TSTagMaps ==
    { EmptyTags, (T_Name :> V_test), (T_DoNotDelete :> T_true) }

\* A candidate list: OrphanedENI records with distinct ids
TSCandidateLists ==
    UNION { { [i \in 1..n |->
                 [id |-> i, region |-> "us-east-1", tags |-> f[i].tags,
                  attachmentState |-> f[i].att, createdTime |-> f[i].created]] :
              f \in [1..n -> [tags : TSTagMaps, att : {"", "attached"},
                              created : {0, 8}]] } :
            n \in 0..MaxCandidates }

TSCleanupOptions ==
    [dryRun : BOOLEAN, IncludeTagKeys : {<<>>, <<T_Name>>},
     ExcludeTagKeys : {<<>>, <<T_DoNotDelete>>}, olderThanDays : {0, 5}]

InitTS ==
    /\ tsIn \in [enis : TSCandidateLists, options : TSCleanupOptions, now : {10}]
    /\ tsOut = NewCleanupResult
    /\ tsPc = "call"
    /\ FnUnused /\ GoUnused /\ ShUnused

CallCleanupENIs ==
    /\ tsPc = "call"
    /\ \E thrown \in SUBSET (1..Len(tsIn.enis)) :
          tsOut' = cleanupENIs(tsIn.enis, tsIn.options, tsIn.now, thrown)
    /\ tsPc' = "returned"
    /\ UNCHANGED <<tsIn, fnVars, goVars, shVars>>

NextTS == CallCleanupENIs

SpecTS == InitTS /\ [][NextTS]_vars

\* C7: a dry-run cleanup records every input candidate as skipped: the
\* skipped count equals the number of input candidates, the success and
\* failure counts are zero.
C7_DryRunSkipsEveryCandidate ==
    (tsPc = "returned" /\ tsIn.options.dryRun) =>
        /\ tsOut.skippedCount = Len(tsIn.enis)
        /\ tsOut.successCount = 0
        /\ tsOut.failureCount = 0

\* C10: after any cleanup call the summary holds exactly one outcome per
\* input candidate: success + failure + skipped = number of candidates.
C10_OneOutcomePerCandidate ==
    tsPc = "returned" =>
        tsOut.successCount + tsOut.failureCount + tsOut.skippedCount
            = Len(tsIn.enis)

(***************************************************************************)
(* Go provider: the provider's network interfaces                          *)
(***************************************************************************)

MaxENIs == 2

ENIIds == 1..MaxENIs

AllRegions == {"us-east-1", "us-west-2"}

\* The interfaces a region can hold when the resource is first created.
InterfaceKinds == {"plain", "inuse", "eks", "vendor"}

KindAttrs(kind) ==
    CASE kind = "plain" ->
           [region |-> "us-east-1", status |-> "available",
            hasDescription |-> TRUE, description |-> D_TestENI,
            hasTags |-> FALSE, tags |-> EmptyTags,
            groups |-> <<"sg-x">>, attStatus |-> "", attId |-> ""]
      [] kind = "inuse" ->
           [region |-> "us-east-1", status |-> "in-use",
            hasDescription |-> TRUE, description |-> D_TestENI,
            hasTags |-> TRUE, tags |-> (T_Team :> T_owned),
            groups |-> <<"sg-y", "sg-x", "sg-z">>, attStatus |-> "attached",
            attId |-> "eni-attach-1"]
      [] kind = "eks" ->
           [region |-> "us-west-2", status |-> "available",
            hasDescription |-> TRUE, description |-> D_EKSENI,
            hasTags |-> TRUE, tags |-> (K_k8s :> T_owned),
            groups |-> <<"sg-x">>, attStatus |-> "", attId |-> ""]
      [] kind = "vendor" ->
           [region |-> "us-west-2", status |-> "available",
            hasDescription |-> TRUE, description |-> D_vendor,
            hasTags |-> TRUE, tags |-> (T_DoNotDelete :> T_true),
            groups |-> <<"sg-y">>, attStatus |-> "detached",
            attId |-> "eni-attach-2"]

T_NeedsManualCleanup == <<"N","e","e","d","s","M","a","n","u","a","l","C","l","e","a","n","u","p">>
T_AttemptedCleanupTime == <<"A","t","t","e","m","p","t","e","d","C","l","e","a","n","u","p","T","i","m","e">>
T_DeletionError == <<"D","e","l","e","t","i","o","n","E","r","r","o","r">>
V_timestamp == <<"n","o","w">>
V_errorMsg == <<"e","r","r">>

\* The three tags tagENIForManualCleanup writes
ManualCleanupTags ==
    (T_NeedsManualCleanup :> T_true) @@ (T_AttemptedCleanupTime :> V_timestamp)
        @@ (T_DeletionError :> V_errorMsg)

\* The provider's record of a new interface of the given kind
NewInterface(kind) ==
    [kind |-> kind, exists |-> TRUE, status |-> KindAttrs(kind).status,
     groups |-> KindAttrs(kind).groups, attStatus |-> KindAttrs(kind).attStatus,
     attId |-> KindAttrs(kind).attId, tagged |-> FALSE]

\* types.NetworkInterface as DescribeNetworkInterfaces returns it
Interface(c, i) ==
    LET a == KindAttrs(c[i].kind) IN
    [id |-> i, region |-> a.region, status |-> c[i].status,
     hasDescription |-> a.hasDescription, description |-> a.description,
     hasTags |-> a.hasTags \/ c[i].tagged,
     tags |-> IF c[i].tagged THEN ManualCleanupTags @@ a.tags ELSE a.tags,
     groups |-> c[i].groups, attStatus |-> c[i].attStatus, attId |-> c[i].attId]

idSeq == [i \in ENIIds |-> i]

\* findNetworkInterfaces with the optional group-id filter: the ids of the
\* region's interfaces, in the provider's order.  groupId = "" is no filter.
findNetworkInterfaces(c, region, groupId) ==
    LET Listed(i) == /\ c[i].exists
                     /\ KindAttrs(c[i].kind).region = region
                     /\ (groupId # "" => groupId \in Range(c[i].groups))
    IN SelectSeq(idSeq, Listed)

(***************************************************************************)
(* Go provider: DetectOrphanedENIs (aws.go 51-196)                         *)
(***************************************************************************)

\* "Create orphaned ENI entry".  VPCID, SubnetID, AvailabilityZone,
\* CreatedTime, Tags and Description are copied too; the cleanup reads none
\* of them, so the entry keeps the fields the cleanup reads.
NewOrphanedENI(c, region, i) ==
    [ID |-> i, Region |-> region, SecurityGroups |-> c[i].groups,
     AttachmentState |-> c[i].attStatus, AttachmentID |-> c[i].attId]

\* One iteration of "for _, region := range regions" that reached the
\* filtering loop
DetectRegion(c, region, options) ==
    LET Keep(i) == DetectKeeps(Interface(c, i), options)
        kept == SelectSeq(findNetworkInterfaces(c, region, options.SecurityGroupId), Keep)
    IN [k \in 1..Len(kept) |-> NewOrphanedENI(c, region, kept[k])]

\* DetectOrphanedENIs(ctx, regions, options).  failed holds the regions
\* whose config load or listing returned an error: the loop logs and
\* continues.  The returned error is always nil.
RECURSIVE DetectOrphanedENIs(_, _, _, _)
DetectOrphanedENIs(c, regions, options, failed) ==
    IF regions = <<>> THEN <<>>
    ELSE (IF Head(regions) \in failed THEN <<>>
          ELSE DetectRegion(c, Head(regions), options))
         \o DetectOrphanedENIs(c, Tail(regions), options, failed)

(***************************************************************************)
(* Go provider: the resource (resource.go)                                 *)
(***************************************************************************)

ArgFields ==
    {"Regions", "SecurityGroupId", "DefaultSecurityGroupId", "DryRun",
     "SkipReservedDescriptions", "IncludeTagKeys", "ExcludeTagKeys",
     "DisassociateOnly"}

\* options := DetectOptions{...} of Create, Update and Delete
DetectOptionsOf(a) ==
    [SkipReservedDescriptions |-> a.SkipReservedDescriptions,
     IncludeTagKeys |-> a.IncludeTagKeys,
     ExcludeTagKeys |-> a.ExcludeTagKeys,
     SecurityGroupId |-> a.SecurityGroupId]

\* result := CleanupResult{CleanedENIs: ..., Errors: ...}
NewResult ==
    [SuccessCount |-> 0, FailureCount |-> 0, SkippedCount |-> 0,
     CleanedENIs |-> <<>>, Errors |-> <<>>]

\* ResourceState{inputs..., outputs...}
StateOf(a, success, failure, skipped, cleaned) ==
    [f \in ArgFields |-> a[f]]
        @@ [SuccessCount |-> success, FailureCount |-> failure,
            SkippedCount |-> skipped, CleanedENIs |-> cleaned]

\* ResourceState{}: the zero value.  A nil pointer and the zero value it
\* is read as ("" or false) are one value here: the code tests
\* `p != nil && *p != ""` and `if p != nil { v = *p }` everywhere.
ZeroState ==
    [Regions |-> <<>>, SecurityGroupId |-> "", DefaultSecurityGroupId |-> "",
     DryRun |-> FALSE, SkipReservedDescriptions |-> <<>>,
     IncludeTagKeys |-> <<>>, ExcludeTagKeys |-> <<>>,
     DisassociateOnly |-> FALSE, SuccessCount |-> 0, FailureCount |-> 0,
     SkippedCount |-> 0, CleanedENIs |-> <<>>]

ArgsOf(s) == [f \in ArgFields |-> s[f]]

\* A faulty variant: the dry-run flag is overridden everywhere as Delete does.
dryRunOf_Never(name, a) == FALSE

\* A faulty variant: only Create honours the flag, Update runs for real.
dryRunOf_CreateOnly(name, a) == name = "Create" /\ a.DryRun

\* A faulty variant: Delete honours the stored dryRun flag.
dryRunOf_Stored(name, a) == a.DryRun

\* dryRun := false; if DryRun != nil { dryRun = *DryRun } in Create and
\* Update; Delete: dryRun := false "regardless of DryRun setting"
dryRunOf(name, a) == IF name = "Delete" THEN FALSE ELSE a.DryRun

\* A faulty variant: the flag is never honoured.
disassociateOnlyOf_Never(name, a) == FALSE

\* disassociateOnly of Create and Update; Delete: "Always use
\* disassociate-only for delete operations"
disassociateOnlyOf(name, a) == IF name = "Delete" THEN TRUE ELSE a.DisassociateOnly

NoLocal == [newGroups |-> <<>>, targetSG |-> "", actionTaken |-> ""]

MaxOps == 2

MaxFaults == 2

\* The provider may fail a call while the budget of failures lasts.
Outcomes(n) == IF faults + n <= MaxFaults THEN BOOLEAN ELSE {TRUE}

\* Every EC2 call of the cleanup passes ctx to the SDK, which fails a call
\* made with a context that is already done.
CallOutcomes == IF ctxDone THEN {FALSE} ELSE Outcomes(1)

NoOp == [name |-> "none", preview |-> FALSE, n |-> 0]

NoReturn == [err |-> "", state |-> ZeroState]

\* The configurations of the harness
DetectionPresets ==
    { [Regions |-> <<"us-east-1", "us-west-2">>, Skip |-> <<>>,
       Include |-> <<>>, Exclude |-> <<>>],
      [Regions |-> <<"us-east-1", "us-west-2">>, Skip |-> <<T_vendor>>,
       Include |-> <<>>, Exclude |-> <<>>],
      [Regions |-> <<"us-east-1", "us-west-2">>, Skip |-> <<>>,
       Include |-> <<T_Team>>, Exclude |-> <<>>],
      [Regions |-> <<"us-east-1", "us-west-2">>, Skip |-> <<>>,
       Include |-> <<>>, Exclude |-> <<T_DoNotDelete>>],
      [Regions |-> <<"us-east-1">>, Skip |-> <<>>,
       Include |-> <<>>, Exclude |-> <<>>],
      [Regions |-> <<>>, Skip |-> <<>>, Include |-> <<>>, Exclude |-> <<>>] }

GroupPresets ==
    { [target |-> "", default |-> ""],
      [target |-> "", default |-> "sg-default"],
      [target |-> "sg-x", default |-> ""],
      [target |-> "sg-x", default |-> "sg-default"],
      [target |-> "sg-x", default |-> "sg-x"] }

ArgsSet ==
    { [Regions |-> d.Regions, SecurityGroupId |-> g.target,
       DefaultSecurityGroupId |-> g.default, DryRun |-> dry,
       SkipReservedDescriptions |-> d.Skip, IncludeTagKeys |-> d.Include,
       ExcludeTagKeys |-> d.Exclude, DisassociateOnly |-> dis] :
        d \in DetectionPresets, g \in GroupPresets,
        dry \in BOOLEAN, dis \in BOOLEAN }

\* The provider states of the harness: the first interface is one of
\* us-east-1, the others are of any kind.
Clouds ==
    { [i \in ENIIds |-> NewInterface(k[i])] :
        k \in { f \in [ENIIds -> InterfaceKinds] : f[1] \in {"plain", "inuse"} } }

\* The provider states a script or a direct call may meet: interfaces of any kind
ShClouds ==
    { [i \in ENIIds |-> NewInterface(k[i])] : k \in [ENIIds -> InterfaceKinds] }

Init ==
    /\ cloud \in Clouds
    /\ cloud0 = cloud
    /\ resource = "absent"
    /\ state = ZeroState
    /\ op = NoOp
    /\ input \in ArgsSet
    /\ pc = "idle"
    /\ orphanedENIs = <<>>
    /\ todo = {}
    /\ regionENIs = <<>>
    /\ local = NoLocal
    /\ result = NewResult
    /\ calls = <<>>
    /\ regionErrs = {}
    /\ ret = NoReturn
    /\ faults = 0
    /\ prevRun = [op |-> NoOp, input |-> input, SuccessCount |-> 0,
                  FailureCount |-> 0, SkippedCount |-> 0, CleanedENIs |-> <<>>,
                  regionErrs |-> {}, err |-> "", faults |-> 0]
    /\ ctxDone = FALSE
    /\ FnUnused /\ TsUnused /\ ShUnused

\* What every operation does on entry: the engine hands it its arguments,
\* and the histories start afresh.
Begin(name, preview, args) ==
    /\ op.n < MaxOps
    /\ op' = [name |-> name, preview |-> preview, n |-> op.n + 1]
    /\ input' = args
    /\ cloud0' = cloud
    /\ calls' = <<>>
    /\ regionErrs' = {}
    /\ orphanedENIs' = <<>>
    /\ todo' = {}
    /\ regionENIs' = <<>>
    /\ local' = NoLocal
    /\ result' = NewResult
    /\ prevRun' = [op |-> op, input |-> input,
                   SuccessCount |-> result.SuccessCount,
                   FailureCount |-> result.FailureCount,
                   SkippedCount |-> result.SkippedCount,
                   CleanedENIs |-> result.CleanedENIs,
                   regionErrs |-> regionErrs, err |-> ret.err,
                   faults |-> faults]
    /\ ctxDone' = FALSE
    /\ UNCHANGED <<cloud, resource, state, faults, fnVars, tsVars, shVars>>

\* Resource.Create up to the call of DetectOrphanedENIs
Create ==
    /\ pc = "idle" /\ resource = "absent"
    /\ \E preview \in BOOLEAN :
         /\ Begin("Create", preview, input)
         /\ IF Len(input.Regions) = 0
            THEN /\ ret' = [err |-> "at least one region must be specified",
                            state |-> ZeroState]
                 /\ pc' = "idle"
            ELSE IF preview
            THEN /\ ret' = [err |-> "", state |-> StateOf(input, 0, 0, 0, <<>>)]
                 /\ pc' = "idle"
            ELSE /\ ret' = NoReturn
                 /\ pc' = "detect"

\* A faulty variant: a preview Update starts from fresh counts.
Update_PreviewResetsCounts ==
    /\ pc = "idle" /\ resource = "created"
    /\ \E preview \in BOOLEAN,
          newArgs \in {ArgsOf(state), [ArgsOf(state) EXCEPT !.Regions = <<>>]} :
         /\ Begin("Update", preview, newArgs)
         /\ IF preview
            THEN /\ ret' = [err |-> "", state |-> StateOf(newArgs, 0, 0, 0, <<>>)]
                 /\ pc' = "idle"
            ELSE /\ ret' = NoReturn
                 /\ pc' = "detect"

\* Resource.Update up to the call of DetectOrphanedENIs.  The new
\* arguments are the stored ones, or the stored ones with no region.
Update ==
    /\ pc = "idle" /\ resource = "created"
    /\ \E preview \in BOOLEAN,
          newArgs \in {ArgsOf(state), [ArgsOf(state) EXCEPT !.Regions = <<>>]} :
         /\ Begin("Update", preview, newArgs)
         /\ IF preview
            THEN /\ ret' = [err |-> "",
                            state |-> StateOf(newArgs, state.SuccessCount,
                                              state.FailureCount, state.SkippedCount,
                                              state.CleanedENIs)]
                 /\ pc' = "idle"
            ELSE /\ ret' = NoReturn
                 /\ pc' = "detect"

\* Resource.Delete up to the call of DetectOrphanedENIs
Delete ==
    /\ pc = "idle" /\ resource = "created"
    /\ Begin("Delete", FALSE, ArgsOf(state))
    /\ ret' = NoReturn
    /\ pc' = "detect"

DescribeCall(region) ==
    [api |-> "DescribeNetworkInterfaces", id |-> 0, region |-> region,
     groups |-> <<>>, ok |-> TRUE]

\* orphanedENIs, err := DetectOrphanedENIs(...), and the grouping by
\* region at the head of CleanupOrphanedENIs.  failed holds the regions
\* whose config load or listing fails; the listing calls that answered
\* are recorded.
Detect ==
    /\ pc = "detect"
    /\ \E failed \in {f \in SUBSET Range(input.Regions) :
                           faults + Cardinality(f) <= MaxFaults} :
         LET found == DetectOrphanedENIs(cloud, input.Regions,
                                         DetectOptionsOf(input), failed)
             Answered(r) == r \notin failed
             answered == SelectSeq(input.Regions, Answered)
         IN /\ orphanedENIs' = found
            /\ regionErrs' = failed
            /\ faults' = faults + Cardinality(failed)
            /\ calls' = calls \o [k \in 1..Len(answered) |-> DescribeCall(answered[k])]
            /\ todo' = {found[k].Region : k \in 1..Len(found)}
    /\ pc' = "regions"
    /\ UNCHANGED <<cloud, cloud0, resource, state, op, input, regionENIs,
                   local, result, ret, prevRun, ctxDone, fnVars, tsVars, shVars>>

\* "for region, regionENIs := range enisByRegion": Go visits the map in
\* an unspecified order.  The config load succeeds or fails.
CleanupRegion ==
    /\ pc = "regions" /\ todo # {}
    /\ \E region \in todo, ok \in Outcomes(1) :
         LET InRegion(e) == e.Region = region
             list == SelectSeq(orphanedENIs, InRegion)
         IN /\ todo' = todo \ {region}
            /\ faults' = IF ok THEN faults ELSE faults + 1
            /\ IF ok
               THEN /\ regionENIs' = list
                    /\ pc' = "eni"
                    /\ UNCHANGED <<result, regionErrs>>
               ELSE /\ result' = [result EXCEPT
                          !.Errors = Append(@, [what |-> "config", region |-> region, id |-> 0]),
                          !.FailureCount = @ + Len(list)]
                    /\ regionErrs' = regionErrs \cup {region}
                    /\ regionENIs' = <<>>
                    /\ pc' = "regions"
    /\ UNCHANGED <<cloud, cloud0, resource, state, op, input, orphanedENIs,
                   local, calls, ret, prevRun, ctxDone, fnVars, tsVars, shVars>>

\* `continue`, or the end of the loop body: on to the region's next
\* candidate, or to the next region
NextENI ==
    /\ regionENIs' = Tail(regionENIs)
    /\ pc' = IF Tail(regionENIs) = <<>> THEN "regions" ELSE "eni"

\* A faulty variant: the default group is added whenever one is configured.
Plan_AlwaysDefault(eni, targetSecurityGroupId, defaultSecurityGroupId) ==
    LET defaultSG == defaultSecurityGroupId
        NotTarget(sg) == sg # targetSecurityGroupId
        kept == SelectSeq(eni.SecurityGroups, NotTarget)
    IN IF targetSecurityGroupId # ""
       THEN [newGroups |-> IF defaultSG # "" THEN Append(kept, defaultSG) ELSE kept,
             targetSG |-> targetSecurityGroupId,
             sgFound |-> targetSecurityGroupId \in Range(eni.SecurityGroups),
             actionTaken |-> "disassociated from security group "]
       ELSE [newGroups |-> IF defaultSG # "" THEN <<defaultSG>> ELSE <<>>,
             targetSG |-> "",
             sgFound |-> TRUE,
             actionTaken |-> "disassociated from all security groups"]

\* A faulty variant: the sgFound test is lost.
Plan_NoFoundCheck(eni, targetSecurityGroupId, defaultSecurityGroupId) ==
    LET defaultSG == defaultSecurityGroupId
        NotTarget(sg) == sg # targetSecurityGroupId
        kept == SelectSeq(eni.SecurityGroups, NotTarget)
    IN IF targetSecurityGroupId # ""
       THEN [newGroups |-> IF Len(kept) = 0 /\ defaultSG # ""
                           THEN <<defaultSG>> ELSE kept,
             targetSG |-> targetSecurityGroupId,
             sgFound |-> TRUE,
             actionTaken |-> "disassociated from security group "]
       ELSE [newGroups |-> IF defaultSG # "" THEN <<defaultSG>> ELSE <<>>,
             targetSG |-> "",
             sgFound |-> TRUE,
             actionTaken |-> "disassociated from all security groups"]

\* A faulty variant: with no target, one group is dropped per run.
Plan_OneGroupPerRun(eni, targetSecurityGroupId, defaultSecurityGroupId) ==
    LET defaultSG == defaultSecurityGroupId
        NotTarget(sg) == sg # targetSecurityGroupId
        kept == SelectSeq(eni.SecurityGroups, NotTarget)
    IN IF targetSecurityGroupId # ""
       THEN [newGroups |-> IF Len(kept) = 0 /\ defaultSG # ""
                           THEN <<defaultSG>> ELSE kept,
             targetSG |-> targetSecurityGroupId,
             sgFound |-> targetSecurityGroupId \in Range(eni.SecurityGroups),
             actionTaken |-> "disassociated from security group "]
       ELSE [newGroups |-> IF defaultSG # "" THEN <<defaultSG>>
                           ELSE IF Len(eni.SecurityGroups) = 0 THEN <<>>
                           ELSE Tail(eni.SecurityGroups),
             targetSG |-> "",
             sgFound |-> TRUE,
             actionTaken |-> "disassociated from all security groups"]

\* The groups to keep, the target and the action, as the loop body
\* computes them before the first provider call
Plan(eni, targetSecurityGroupId, defaultSecurityGroupId) ==
    LET defaultSG == defaultSecurityGroupId
        NotTarget(sg) == sg # targetSecurityGroupId
        kept == SelectSeq(eni.SecurityGroups, NotTarget)
    IN IF targetSecurityGroupId # ""
       THEN [newGroups |-> IF Len(kept) = 0 /\ defaultSG # ""
                           THEN <<defaultSG>> ELSE kept,
             targetSG |-> targetSecurityGroupId,
             sgFound |-> targetSecurityGroupId \in Range(eni.SecurityGroups),
             actionTaken |-> "disassociated from security group "]
       ELSE [newGroups |-> IF defaultSG # "" THEN <<defaultSG>> ELSE <<>>,
             targetSG |-> "",
             sgFound |-> TRUE,
             actionTaken |-> "disassociated from all security groups"]

CurrentPlan ==
    Plan(Head(regionENIs), input.SecurityGroupId, input.DefaultSecurityGroupId)

MutatingCall(api, eni, groups, ok) ==
    [api |-> api, id |-> eni.ID, region |-> eni.Region, groups |-> groups,
     ok |-> ok]

\* result.SuccessCount++; result.CleanedENIs = append(...)
Succeeded(r, eni, actionTaken, targetSG) ==
    [r EXCEPT !.SuccessCount = @ + 1,
              !.CleanedENIs = Append(@, [ID |-> eni.ID, Region |-> eni.Region,
                                         ActionTaken |-> actionTaken,
                                         SecurityGroup |-> targetSG])]

Failed(r, what, eni) ==
    [r EXCEPT !.Errors = Append(@, [what |-> what, region |-> eni.Region,
                                    id |-> eni.ID])]

\* A faulty variant: the detach is decided by the attachment id alone,
\* whatever the attachment's status.
CleanupENI_DetachAnyAttachment ==
    /\ pc = "eni"
    /\ LET eni == Head(regionENIs)
           plan == CurrentPlan
       IN IF dryRunOf(op.name, input) \/ ~plan.sgFound
          THEN /\ result' = [result EXCEPT !.SkippedCount = @ + 1]
               /\ NextENI
               /\ UNCHANGED <<cloud, local, calls, faults>>
          ELSE \E ok \in CallOutcomes :
            /\ faults' = IF ok THEN faults ELSE faults + 1
            /\ calls' = Append(calls, MutatingCall("ModifyNetworkInterfaceAttribute",
                                                   eni, plan.newGroups, ok))
            /\ local' = [newGroups |-> plan.newGroups, targetSG |-> plan.targetSG,
                         actionTaken |-> plan.actionTaken]
            /\ IF ~ok
               THEN /\ result' = Failed(result, "modify", eni)
                    /\ pc' = "tagModify"
                    /\ UNCHANGED <<cloud, regionENIs>>
               ELSE /\ cloud' = [cloud EXCEPT ![eni.ID].groups = plan.newGroups]
                    /\ IF disassociateOnlyOf(op.name, input)
                       THEN /\ result' = Succeeded(result, eni, plan.actionTaken,
                                                   plan.targetSG)
                            /\ NextENI
                       ELSE /\ pc' = IF eni.AttachmentID # ""
                                     THEN "detach" ELSE "delete"
                            /\ UNCHANGED <<result, regionENIs>>
    /\ UNCHANGED <<cloud0, resource, state, op, input, orphanedENIs, todo,
                   regionErrs, ret, prevRun, ctxDone, fnVars, tsVars, shVars>>

\* The body of "for _, eni := range regionENIs" up to its first provider
\* call and what follows that call up to the next one:
\*   if dryRun { result.SkippedCount++; continue }
\*   if !sgFound { result.SkippedCount++; continue }
\*   ec2Client.ModifyNetworkInterfaceAttribute(..., Groups: newGroups)
CleanupENI ==
    /\ pc = "eni"
    /\ LET eni == Head(regionENIs)
           plan == CurrentPlan
       IN IF dryRunOf(op.name, input) \/ ~plan.sgFound
          THEN /\ result' = [result EXCEPT !.SkippedCount = @ + 1]
               /\ NextENI
               /\ UNCHANGED <<cloud, local, calls, faults>>
          ELSE \E ok \in CallOutcomes :
            /\ faults' = IF ok THEN faults ELSE faults + 1
            /\ calls' = Append(calls, MutatingCall("ModifyNetworkInterfaceAttribute",
                                                   eni, plan.newGroups, ok))
            /\ local' = [newGroups |-> plan.newGroups, targetSG |-> plan.targetSG,
                         actionTaken |-> plan.actionTaken]
            /\ IF ~ok
               THEN /\ result' = Failed(result, "modify", eni)
                    /\ pc' = "tagModify"
                    /\ UNCHANGED <<cloud, regionENIs>>
               ELSE /\ cloud' = [cloud EXCEPT ![eni.ID].groups = plan.newGroups]
                    /\ IF disassociateOnlyOf(op.name, input)
                       THEN /\ result' = Succeeded(result, eni, plan.actionTaken,
                                                   plan.targetSG)
                            /\ NextENI
                       ELSE /\ pc' = IF /\ eni.AttachmentState # ""
                                        /\ eni.AttachmentState # "detached"
                                        /\ eni.AttachmentID # ""
                                     THEN "detach" ELSE "delete"
                            /\ UNCHANGED <<result, regionENIs>>
    /\ UNCHANGED <<cloud0, resource, state, op, input, orphanedENIs, todo,
                   regionErrs, ret, prevRun, ctxDone, fnVars, tsVars, shVars>>

\* tagENIForManualCleanup: one CreateTags call whose failure is only logged
tagENIForManualCleanup(eni, ok) ==
    /\ faults' = IF ok THEN faults ELSE faults + 1
    /\ calls' = Append(calls, MutatingCall("CreateTags", eni, <<>>, ok))
    /\ cloud' = IF ok THEN [cloud EXCEPT ![eni.ID].tagged = TRUE] ELSE cloud

\* A faulty variant: the `continue` after the failed modify is lost and
\* the loop body goes on to the delete.
CleanupTagAfterModify_NoContinue ==
    /\ pc = "tagModify"
    /\ \E ok \in CallOutcomes : tagENIForManualCleanup(Head(regionENIs), ok)
    /\ result' = [result EXCEPT !.FailureCount = @ + 1]
    /\ pc' = "delete"
    /\ UNCHANGED <<cloud0, resource, state, op, input, orphanedENIs, todo,
                   regionENIs, local, regionErrs, ret, prevRun, ctxDone, fnVars, tsVars,
                   shVars>>

\* A faulty variant: the candidate whose modification failed is put back
\* at the end of the region's list, to be tried again while the others
\* are under way.
CleanupTagAfterModify_Requeue ==
    /\ pc = "tagModify"
    /\ \E ok \in CallOutcomes : tagENIForManualCleanup(Head(regionENIs), ok)
    /\ result' = [result EXCEPT !.FailureCount = @ + 1]
    /\ regionENIs' = Append(Tail(regionENIs), Head(regionENIs))
    /\ pc' = "eni"
    /\ UNCHANGED <<cloud0, resource, state, op, input, orphanedENIs, todo,
                   local, regionErrs, ret, prevRun, ctxDone, fnVars, tsVars, shVars>>

\* A faulty variant: the candidate whose modification failed is counted
\* as skipped.
CleanupTagAfterModify_CountsSkipped ==
    /\ pc = "tagModify"
    /\ \E ok \in CallOutcomes : tagENIForManualCleanup(Head(regionENIs), ok)
    /\ result' = [result EXCEPT !.SkippedCount = @ + 1]
    /\ NextENI
    /\ UNCHANGED <<cloud0, resource, state, op, input, orphanedENIs, todo,
                   local, regionErrs, ret, prevRun, ctxDone, fnVars, tsVars, shVars>>

\* After a failed modify: tagENIForManualCleanup; result.FailureCount++;
\* continue
CleanupTagAfterModify ==
    /\ pc = "tagModify"
    /\ \E ok \in CallOutcomes : tagENIForManualCleanup(Head(regionENIs), ok)
    /\ result' = [result EXCEPT !.FailureCount = @ + 1]
    /\ NextENI
    /\ UNCHANGED <<cloud0, resource, state, op, input, orphanedENIs, todo,
                   local, regionErrs, ret, prevRun, ctxDone, fnVars, tsVars, shVars>>

\* A faulty variant: the `continue` after a failed detach is lost and the
\* delete is attempted all the same.
CleanupDetach_NoContinue ==
    /\ pc = "detach"
    /\ LET eni == Head(regionENIs) IN
       \E ok \in CallOutcomes :
         /\ faults' = IF ok THEN faults ELSE faults + 1
         /\ calls' = Append(calls, MutatingCall("DetachNetworkInterface", eni, <<>>, ok))
         /\ cloud' = IF ok THEN [cloud EXCEPT ![eni.ID].attStatus = "detaching"]
                     ELSE cloud
         /\ result' = IF ok THEN result
                      ELSE [Failed(result, "detach", eni) EXCEPT !.FailureCount = @ + 1]
         /\ pc' = "delete"
         /\ UNCHANGED regionENIs
    /\ UNCHANGED <<cloud0, resource, state, op, input, orphanedENIs, todo,
                   local, regionErrs, ret, prevRun, ctxDone, fnVars, tsVars, shVars>>

\* ec2Client.DetachNetworkInterface(..., Force: true), then the 5 s sleep
CleanupDetach ==
    /\ pc = "detach"
    /\ LET eni == Head(regionENIs) IN
       \E ok \in CallOutcomes :
         /\ faults' = IF ok THEN faults ELSE faults + 1
         /\ calls' = Append(calls, MutatingCall("DetachNetworkInterface", eni, <<>>, ok))
         /\ IF ok
            THEN /\ cloud' = [cloud EXCEPT ![eni.ID].attStatus = "detaching"]
                 /\ pc' = "delete"
                 /\ UNCHANGED <<result, regionENIs>>
            ELSE /\ result' = [Failed(result, "detach", eni) EXCEPT
                                  !.FailureCount = @ + 1]
                 /\ NextENI
                 /\ UNCHANGED cloud
    /\ UNCHANGED <<cloud0, resource, state, op, input, orphanedENIs, todo,
                   local, regionErrs, ret, prevRun, ctxDone, fnVars, tsVars, shVars>>

\* A faulty variant: the `else` branch of the delete is lost and a deleted
\* candidate keeps the action of its disassociation.
CleanupDelete_KeepsAction ==
    /\ pc = "delete"
    /\ LET eni == Head(regionENIs) IN
       \E ok \in CallOutcomes :
         /\ faults' = IF ok THEN faults ELSE faults + 1
         /\ calls' = Append(calls, MutatingCall("DeleteNetworkInterface", eni, <<>>, ok))
         /\ IF ok
            THEN /\ cloud' = [cloud EXCEPT ![eni.ID].exists = FALSE]
                 /\ result' = Succeeded(result, eni, local.actionTaken, local.targetSG)
                 /\ NextENI
                 /\ UNCHANGED local
            ELSE /\ result' = Failed(result, "delete", eni)
                 /\ pc' = "tagDelete"
                 /\ UNCHANGED <<cloud, local, regionENIs>>
    /\ UNCHANGED <<cloud0, resource, state, op, input, orphanedENIs, todo,
                   regionErrs, ret, prevRun, ctxDone, fnVars, tsVars, shVars>>

\* ec2Client.DeleteNetworkInterface
CleanupDelete ==
    /\ pc = "delete"
    /\ LET eni == Head(regionENIs) IN
       \E ok \in CallOutcomes :
         /\ faults' = IF ok THEN faults ELSE faults + 1
         /\ calls' = Append(calls, MutatingCall("DeleteNetworkInterface", eni, <<>>, ok))
         /\ IF ok
            THEN /\ cloud' = [cloud EXCEPT ![eni.ID].exists = FALSE]
                 /\ local' = [local EXCEPT !.actionTaken = "deleted"]
                 /\ result' = Succeeded(result, eni, "deleted", local.targetSG)
                 /\ NextENI
            ELSE /\ result' = Failed(result, "delete", eni)
                 /\ pc' = "tagDelete"
                 /\ UNCHANGED <<cloud, local, regionENIs>>
    /\ UNCHANGED <<cloud0, resource, state, op, input, orphanedENIs, todo,
                   regionErrs, ret, prevRun, ctxDone, fnVars, tsVars, shVars>>

\* A faulty variant: after the tagging, a failed delete is tried again,
\* until it succeeds.
CleanupTagAfterDelete_RetryDelete ==
    /\ pc = "tagDelete"
    /\ \E ok \in CallOutcomes : tagENIForManualCleanup(Head(regionENIs), ok)
    /\ pc' = "delete"
    /\ UNCHANGED <<cloud0, resource, state, op, input, orphanedENIs, todo,
                   regionENIs, local, result, regionErrs, ret, prevRun, ctxDone,
                   fnVars, tsVars, shVars>>

\* A faulty variant: the candidate whose delete failed is counted as a
\* failure and gets no outcome record.
CleanupTagAfterDelete_CountsFailure ==
    /\ pc = "tagDelete"
    /\ \E ok \in CallOutcomes : tagENIForManualCleanup(Head(regionENIs), ok)
    /\ local' = [local EXCEPT
                    !.actionTaken = "disassociated from security groups (delete failed)"]
    /\ result' = [result EXCEPT !.FailureCount = @ + 1]
    /\ NextENI
    /\ UNCHANGED <<cloud0, resource, state, op, input, orphanedENIs, todo,
                   regionErrs, ret, prevRun, ctxDone, fnVars, tsVars, shVars>>

\* A faulty variant: the tagged candidate keeps the planned action.
CleanupTagAfterDelete_KeepsPlannedAction ==
    /\ pc = "tagDelete"
    /\ \E ok \in CallOutcomes : tagENIForManualCleanup(Head(regionENIs), ok)
    /\ UNCHANGED local
    /\ result' = Succeeded(result, Head(regionENIs), local.actionTaken,
                           local.targetSG)
    /\ NextENI
    /\ UNCHANGED <<cloud0, resource, state, op, input, orphanedENIs, todo,
                   regionErrs, ret, prevRun, ctxDone, fnVars, tsVars, shVars>>

\* After a failed delete: tagENIForManualCleanup, and the candidate is
\* counted as a success "with disassociate action"
CleanupTagAfterDelete ==
    /\ pc = "tagDelete"
    /\ \E ok \in CallOutcomes : tagENIForManualCleanup(Head(regionENIs), ok)
    /\ local' = [local EXCEPT
                    !.actionTaken = "disassociated from security groups (delete failed)"]
    /\ result' = Succeeded(result, Head(regionENIs),
                           "disassociated from security groups (delete failed)",
                           local.targetSG)
    /\ NextENI
    /\ UNCHANGED <<cloud0, resource, state, op, input, orphanedENIs, todo,
                   regionErrs, ret, prevRun, ctxDone, fnVars, tsVars, shVars>>

\* A faulty variant: Delete reports the failures of its cleanup.
Return_DeleteReportsFailures ==
    /\ pc = "regions" /\ todo = {}
    /\ LET newState == StateOf(input, result.SuccessCount, result.FailureCount,
                               result.SkippedCount, result.CleanedENIs)
       IN IF op.name = "Delete"
          THEN IF result.FailureCount > 0 \/ regionErrs # {}
               THEN /\ ret' = [err |-> "delete-time cleanup failed",
                               state |-> ZeroState]
                    /\ UNCHANGED <<resource, state>>
               ELSE /\ resource' = "deleted"
                    /\ ret' = NoReturn
                    /\ UNCHANGED state
          ELSE /\ resource' = "created"
               /\ state' = newState
               /\ ret' = [err |-> "", state |-> newState]
    /\ pc' = "idle"
    /\ UNCHANGED <<cloud, cloud0, op, input, orphanedENIs, todo, regionENIs,
                   local, result, calls, regionErrs, faults, prevRun, ctxDone, fnVars, tsVars, shVars>>

\* return result, and the rest of Create, Update or Delete.  The engine
\* stores the state a Create or Update returns and drops the resource
\* after a Delete.
Return ==
    /\ pc = "regions" /\ todo = {}
    /\ LET newState == StateOf(input, result.SuccessCount, result.FailureCount,
                               result.SkippedCount, result.CleanedENIs)
       IN IF op.name = "Delete"
          THEN /\ resource' = "deleted"
               /\ ret' = NoReturn
               /\ UNCHANGED state
          ELSE /\ resource' = "created"
               /\ state' = newState
               /\ ret' = [err |-> "", state |-> newState]
    /\ pc' = "idle"
    /\ UNCHANGED <<cloud, cloud0, op, input, orphanedENIs, todo, regionENIs,
                   local, result, calls, regionErrs, faults, prevRun, ctxDone, fnVars, tsVars, shVars>>

\* The provider finishes a detachment the cleanup asked for: this happens
\* on the provider's schedule, during the 5 s sleep or after it.
DetachCompletes ==
    /\ \E i \in ENIIds :
         /\ cloud[i].exists /\ cloud[i].attStatus = "detaching"
         /\ LET Done(c) == [c EXCEPT ![i].attStatus = "", ![i].attId = "",
                                      ![i].status = "available"]
            IN cloud' = Done(cloud) /\ cloud0' = Done(cloud0)
    /\ UNCHANGED <<resource, state, op, input, pc, orphanedENIs, todo,
                   regionENIs, local, result, calls, regionErrs, ret, faults,
                   prevRun, ctxDone, fnVars, tsVars, shVars>>

Next ==
    \/ Create
    \/ Update
    \/ Delete
    \/ Detect
    \/ CleanupRegion
    \/ CleanupENI
    \/ CleanupTagAfterModify
    \/ CleanupDetach
    \/ CleanupDelete
    \/ CleanupTagAfterDelete
    \/ Return
    \/ DetachCompletes

Spec == Init /\ [][Next]_vars

(***************************************************************************)
(* Go provider: CleanupOrphanedENIs called on its own (aws.go 199-354)     *)
(***************************************************************************)

\* The arguments of the calls: dryRun, disassociateOnly and the two
\* security-group ids
ClArgsSet ==
    { a \in ArgsSet : /\ a.Regions = <<"us-east-1", "us-west-2">>
                      /\ a.SkipReservedDescriptions = <<>>
                      /\ a.IncludeTagKeys = <<>>
                      /\ a.ExcludeTagKeys = <<>> }

\* enis: one entry for each interface of the provider, whatever its groups
ClENIs(c) ==
    [i \in ENIIds |-> NewOrphanedENI(c, KindAttrs(c[i].kind).region, i)]

\* The call has grouped enis by region and stands before the loop over
\* the regions.
InitCl ==
    /\ cloud \in ShClouds
    /\ cloud0 = cloud
    /\ resource = "absent"
    /\ state = ZeroState
    /\ op = [name |-> "CleanupOrphanedENIs", preview |-> FALSE, n |-> 1]
    /\ input \in ClArgsSet
    /\ pc = "regions"
    /\ orphanedENIs = ClENIs(cloud)
    /\ todo = {orphanedENIs[k].Region : k \in 1..Len(orphanedENIs)}
    /\ regionENIs = <<>>
    /\ local = NoLocal
    /\ result = NewResult
    /\ calls = <<>>
    /\ regionErrs = {}
    /\ ret = NoReturn
    /\ faults = 0
    /\ prevRun = [op |-> NoOp, input |-> input, SuccessCount |-> 0,
                  FailureCount |-> 0, SkippedCount |-> 0, CleanedENIs |-> <<>>,
                  regionErrs |-> {}, err |-> "", faults |-> 0]
    /\ ctxDone = FALSE
    /\ FnUnused /\ TsUnused /\ ShUnused

\* The caller cancels ctx, or its deadline passes, while the call runs.
Cancel ==
    /\ pc # "idle" /\ ~ctxDone
    /\ ctxDone' = TRUE
    /\ UNCHANGED <<cloud, cloud0, resource, state, op, input, pc, orphanedENIs,
                   todo, regionENIs, local, result, calls, regionErrs, ret,
                   faults, prevRun, fnVars, tsVars, shVars>>

\* return result
CleanupReturns ==
    /\ pc = "regions" /\ todo = {}
    /\ pc' = "idle"
    /\ UNCHANGED <<cloud, cloud0, resource, state, op, input, orphanedENIs,
                   todo, regionENIs, local, result, calls, regionErrs, ret,
                   faults, prevRun, ctxDone, fnVars, tsVars, shVars>>

NextCl ==
    \/ CleanupRegion
    \/ CleanupENI
    \/ CleanupTagAfterModify
    \/ CleanupDetach
    \/ CleanupDelete
    \/ CleanupTagAfterDelete
    \/ CleanupReturns
    \/ DetachCompletes
    \/ Cancel

SpecCl == InitCl /\ [][NextCl]_vars

\* The steps of the call itself.  The loops are sequential code: a step
\* that can be taken is taken.
ClStep ==
    \/ CleanupRegion
    \/ CleanupENI
    \/ CleanupTagAfterModify
    \/ CleanupDetach
    \/ CleanupDelete
    \/ CleanupTagAfterDelete
    \/ CleanupReturns

FairSpecCl == SpecCl /\ WF_vars(ClStep)

(***************************************************************************)
(* Claims checked under Spec                                               *)
(***************************************************************************)

MutatingAPIs ==
    {"ModifyNetworkInterfaceAttribute", "DetachNetworkInterface",
     "DeleteNetworkInterface", "CreateTags"}

MutatingCalls == {k \in 1..Len(calls) : calls[k].api \in MutatingAPIs}

\* The interface's description holds a default or configured marker
GoReserved(i) == shouldSkip(Interface(cloud, i), DetectOptionsOf(input))

\* The operation ran its cleanup to the end (no preview, no early return)
RanToEnd(o) == o.name \in {"Create", "Update", "Delete"} /\ ~o.preview

\* C3: across Create, Update and Delete of the Go resource, an interface
\* whose description contains a reserved marker (default or configured)
\* never receives a mutating call, and the provider's record of it is the
\* one the operation found.
C3_ReservedNeverMutated ==
    \A i \in ENIIds :
        GoReserved(i) =>
            /\ \A k \in MutatingCalls : calls[k].id # i
            /\ cloud[i] = cloud0[i]

\* C3 witness: a Delete has issued a mutating call that succeeded while a
\* reserved interface carrying the filtered security group sat in a region
\* whose listing answered.
C3_Witness ==
    /\ pc = "idle" /\ op.name = "Delete"
    /\ \E k \in MutatingCalls : calls[k].ok
    /\ \E i \in ENIIds :
         /\ GoReserved(i) /\ cloud[i].exists
         /\ input.SecurityGroupId \in Range(cloud[i].groups)
         /\ \E k \in 1..Len(calls) :
              calls[k] = DescribeCall(KindAttrs(cloud[i].kind).region)

\* C6: when dryRun is true the cleanup of Create and Update issues no
\* mutating provider call, and the provider state is the one the operation
\* started from.
C6_DryRunMutatesNothing ==
    (op.name \in {"Create", "Update"} /\ input.DryRun) =>
        /\ MutatingCalls = {}
        /\ cloud = cloud0

\* C6 witness: a dry-run Update has run to its end over two candidates.
C6_Witness ==
    /\ pc = "idle" /\ op.name = "Update" /\ ~op.preview
    /\ input.DryRun
    /\ Len(orphanedENIs) = 2
    /\ result.SkippedCount = 2

\* Two operations in succession, both dry runs with the same
\* configuration that ran to the end and whose regions all answered
TwoDryRuns ==
    /\ pc = "idle"
    /\ RanToEnd(op) /\ RanToEnd(prevRun.op)
    /\ op.name # "Delete" /\ prevRun.op.name # "Delete"
    /\ input.DryRun /\ prevRun.input = input
    /\ ret.err = "" /\ prevRun.err = ""
    /\ regionErrs = {} /\ prevRun.regionErrs = {}

\* C8: two successive dry-run cleanups with the same configuration over
\* the same provider state return identical summaries: the same success,
\* failure and skipped counts and the same outcome list.
C8_DryRunIdempotent ==
    TwoDryRuns =>
        /\ result.SuccessCount = prevRun.SuccessCount
        /\ result.FailureCount = prevRun.FailureCount
        /\ result.SkippedCount = prevRun.SkippedCount
        /\ result.CleanedENIs = prevRun.CleanedENIs

\* C8 witness: the second of two dry runs has returned, with candidates
\* in both regions.
C8_Witness ==
    /\ TwoDryRuns
    /\ result.SkippedCount = 2
    /\ {orphanedENIs[k].Region : k \in 1..Len(orphanedENIs)} = AllRegions

(***************************************************************************)
(* The generated bash cleanup scripts, specification SpecSh                *)
(*   "go"        generateCleanupScript of the Go SDK                       *)
(*   "tsHandler" generateCleanupScript of eniCleanupHandler.ts            *)
(*   "tsHook"    the script of createPreDestroyCleanupHook (eniCleanup.ts) *)
(***************************************************************************)

Generators == {"go", "tsHandler", "tsHook"}

\* const dryRunFlag = dryRun ? '--dry-run' : ''
dryRunFlagOf(dryRun) == IF dryRun THEN "--dry-run" ELSE ""

\* The word the generator leaves between the quotes of the script's two
\* tests `if [ "..." == "" ]`.  The Go generator substitutes the flag for
\* %s and the hook's template interpolates ${dryRunFlag}: the word is the
\* flag's text.  The handler's template holds $dryRunFlag without braces,
\* which a template literal copies as it stands: the word is a reference
\* to a shell variable of that name.
GuardWord(generator, dryRun) ==
    IF generator = "tsHandler"
    THEN [kind |-> "variable", text |-> "dryRunFlag"]
    ELSE [kind |-> "text", text |-> dryRunFlagOf(dryRun)]

\* What the generator returns: the script's region list, its guard word
\* and the strategy it follows when the first delete fails.
GenerateScript(generator, regions, dryRun) ==
    [regions |-> regions, guard |-> GuardWord(generator, dryRun),
     onDeleteFailure |-> IF generator = "tsHook" THEN "exit" ELSE "fallback",
     fallback |-> generator]

\* bash expansion of a double-quoted word: an unset variable expands to
\* the empty string (the scripts run under set -e, not set -u)
Expand(word, env) ==
    IF word.kind = "variable"
    THEN (IF word.text \in DOMAIN env THEN env[word.text] ELSE "")
    ELSE word.text

\* if [ "<word>" == "" ]
GuardHolds == Expand(shScript.guard, shIn.env) = ""

EmptyEnv == [v \in {} |-> ""]

\* The environments of the shell: dryRunFlag unset, or exported by the
\* caller
ShellEnvs == {EmptyEnv, ("dryRunFlag" :> "--dry-run"), ("dryRunFlag" :> "")}

\* [[ "$DESCRIPTION" == *"ELB"* || ... *"Amazon EKS"* || ... *"AWS-mgmt"* ]]
ScriptReservedDescriptions == {T_ELB, T_AmazonEKS, T_AWSmgmt}

ScriptSkips(eni) ==
    \E d \in ScriptReservedDescriptions : Contains(eni.description, d)

\* GROUPS=$(... jq -r '.Groups[].GroupId // empty'); if [ ! -z "$GROUPS" ]
\* of the handler's script.  GROUPS is a special variable of bash: an
\* assignment to it has no effect and it expands to the user's group id,
\* so the test holds whatever groups the interface has.
GroupsNonEmpty == TRUE

\* aws ec2 describe-network-interfaces --filters "Name=status,Values=available"
AvailableENIs(c, region) ==
    LET Listed(i) == /\ c[i].exists
                     /\ KindAttrs(c[i].kind).region = region
                     /\ c[i].status = "available"
    IN SelectSeq(idSeq, Listed)

MaxShFaults == 3

\* A command of the script may fail while the budget of failures lasts.
ShOutcomes == IF faults + 1 <= MaxShFaults THEN BOOLEAN ELSE {TRUE}

ScriptCall(api, i, ok) ==
    [api |-> api, id |-> i, region |-> KindAttrs(cloud[i].kind).region,
     groups |-> <<>>, ok |-> ok]

InitSh ==
    /\ shIn \in [generator : Generators, dryRun : BOOLEAN, env : ShellEnvs,
                 regions : {<<"us-east-1", "us-west-2">>}]
    /\ shScript = GenerateScript("go", <<>>, FALSE)
    /\ shPc = "generate"
    /\ shTodo = <<>>
    /\ shENIs = <<>>
    /\ cloud \in ShClouds
    /\ cloud0 = cloud
    /\ calls = <<>>
    /\ faults = 0
    /\ resource = "unused" /\ state = <<>> /\ op = <<>> /\ input = <<>>
    /\ pc = "unused" /\ orphanedENIs = <<>> /\ todo = {} /\ regionENIs = <<>>
    /\ local = <<>> /\ result = <<>> /\ regionErrs = {} /\ ret = <<>>
    /\ prevRun = <<>> /\ ctxDone = FALSE
    /\ FnUnused /\ TsUnused

shFrame ==
    UNCHANGED <<cloud0, resource, state, op, input, pc, orphanedENIs, todo,
                regionENIs, local, result, regionErrs, ret, prevRun, ctxDone,
                shIn, fnVars, tsVars>>

\* The program builds the script and registers it as the delete command;
\* the destroy then starts it.
ShGenerate ==
    /\ shPc = "generate"
    /\ shScript' = GenerateScript(shIn.generator, shIn.regions, shIn.dryRun)
    /\ shTodo' = shIn.regions
    /\ shPc' = "region"
    /\ UNCHANGED <<cloud, calls, faults, shENIs>>
    /\ shFrame

\* for region in ...; do AVAILABLE_ENIS=$(aws ec2 describe-network-interfaces ...)
\* A failing listing ends the script (set -e).
ShRegion ==
    /\ shPc = "region"
    /\ IF shTodo = <<>>
       THEN /\ shPc' = "done"
            /\ UNCHANGED <<shTodo, shENIs, calls, faults>>
       ELSE \E ok \in ShOutcomes :
            /\ faults' = IF ok THEN faults ELSE faults + 1
            /\ calls' = Append(calls, [DescribeCall(Head(shTodo)) EXCEPT !.ok = ok])
            /\ shTodo' = Tail(shTodo)
            /\ IF ok
               THEN /\ shENIs' = AvailableENIs(cloud, Head(shTodo))
                    /\ shPc' = IF shENIs' = <<>> THEN "region" ELSE "eni"
               ELSE /\ shENIs' = <<>>
                    /\ shPc' = "exit"
    /\ UNCHANGED <<cloud, shScript>>
    /\ shFrame

\* `continue` or the end of the while body
ShNext ==
    /\ shENIs' = Tail(shENIs)
    /\ shPc' = IF Tail(shENIs) = <<>> THEN "region" ELSE "eni"

\* The head of the while body: the reserved-description test, the read
\* of the interface's details (ENI_DETAILS, a read-only call that is not
\* recorded) and the attachment test
ShENI ==
    /\ shPc = "eni"
    /\ LET eni == Interface(cloud, Head(shENIs))
       IN IF ScriptSkips(eni)
          THEN ShNext
          ELSE /\ shPc' = IF eni.attStatus # "" /\ eni.attId # ""
                          THEN "detach" ELSE "delete"
               /\ UNCHANGED shENIs
    /\ UNCHANGED <<cloud, calls, faults, shScript, shTodo>>
    /\ shFrame

\* if [ "<word>" == "" ]; then aws ec2 detach-network-interface ...; sleep 5
\* else echo "[DRY RUN] Would detach ..."
ShDetach ==
    /\ shPc = "detach"
    /\ IF GuardHolds
       THEN \E ok \in ShOutcomes :
            /\ faults' = IF ok THEN faults ELSE faults + 1
            /\ calls' = Append(calls, ScriptCall("DetachNetworkInterface",
                                                 Head(shENIs), ok))
            /\ cloud' = IF ok
                        THEN [cloud EXCEPT ![Head(shENIs)].attStatus = "detaching"]
                        ELSE cloud
            /\ shPc' = IF ok THEN "delete" ELSE "exit"
       ELSE /\ shPc' = "delete"
            /\ UNCHANGED <<cloud, calls, faults>>
    /\ UNCHANGED <<shScript, shTodo, shENIs>>
    /\ shFrame

\* if [ "<word>" == "" ]; then aws ec2 delete-network-interface ...
\* else echo "[DRY RUN] Would delete ..."
ShDelete ==
    /\ shPc = "delete"
    /\ IF GuardHolds
       THEN \E ok \in ShOutcomes :
            /\ faults' = IF ok THEN faults ELSE faults + 1
            /\ calls' = Append(calls, ScriptCall("DeleteNetworkInterface",
                                                 Head(shENIs), ok))
            /\ IF ok
               THEN /\ cloud' = [cloud EXCEPT ![Head(shENIs)].exists = FALSE]
                    /\ ShNext
               ELSE /\ UNCHANGED <<cloud, shENIs>>
                    /\ shPc' = IF shScript.onDeleteFailure = "exit" THEN "exit"
                               ELSE IF shScript.fallback = "tsHandler"
                                       /\ ~GroupsNonEmpty
                                    THEN "tag" ELSE "modify"
       ELSE /\ ShNext
            /\ UNCHANGED <<cloud, calls, faults>>
    /\ UNCHANGED <<shScript, shTodo>>
    /\ shFrame

\* A faulty variant: after the groups are removed the script goes
\* straight to the tagging, without deleting again.
ShModify_NoRetry ==
    /\ shPc = "modify"
    /\ \E ok \in ShOutcomes :
         /\ faults' = IF ok THEN faults ELSE faults + 1
         /\ calls' = Append(calls, ScriptCall("ModifyNetworkInterfaceAttribute",
                                              Head(shENIs), ok))
         /\ cloud' = IF ok THEN [cloud EXCEPT ![Head(shENIs)].groups = <<>>]
                     ELSE cloud
         /\ shPc' = "tag"
    /\ UNCHANGED <<shScript, shTodo, shENIs>>
    /\ shFrame

\* Fallback 1: aws ec2 modify-network-interface-attribute --groups []
ShModify ==
    /\ shPc = "modify"
    /\ \E ok \in ShOutcomes :
         /\ faults' = IF ok THEN faults ELSE faults + 1
         /\ calls' = Append(calls, ScriptCall("ModifyNetworkInterfaceAttribute",
                                              Head(shENIs), ok))
         /\ cloud' = IF ok THEN [cloud EXCEPT ![Head(shENIs)].groups = <<>>]
                     ELSE cloud
         /\ shPc' = IF ok THEN "retry" ELSE "tag"
    /\ UNCHANGED <<shScript, shTodo, shENIs>>
    /\ shFrame

\* "Try deleting again".  The handler's script goes on to Fallback 2 in
\* either case, the Go script only when the retry failed.
ShRetryDelete ==
    /\ shPc = "retry"
    /\ \E ok \in ShOutcomes :
         /\ faults' = IF ok THEN faults ELSE faults + 1
         /\ calls' = Append(calls, ScriptCall("DeleteNetworkInterface",
                                              Head(shENIs), ok))
         /\ cloud' = IF ok THEN [cloud EXCEPT ![Head(shENIs)].exists = FALSE]
                     ELSE cloud
         /\ IF ok /\ shScript.fallback = "go"
            THEN ShNext
            ELSE shPc' = "tag" /\ UNCHANGED shENIs
    /\ UNCHANGED <<shScript, shTodo>>
    /\ shFrame

\* Fallback 2: aws ec2 create-tags ... NeedsManualCleanup.  The handler's
\* script tags only when the interface still exists.  A failing
\* create-tags ends the script (set -e).
ShTag ==
    /\ shPc = "tag"
    /\ IF shScript.fallback = "tsHandler" /\ ~cloud[Head(shENIs)].exists
       THEN /\ ShNext
            /\ UNCHANGED <<cloud, calls, faults>>
       ELSE \E ok \in ShOutcomes :
            /\ faults' = IF ok THEN faults ELSE faults + 1
            /\ calls' = Append(calls, ScriptCall("CreateTags", Head(shENIs), ok))
            /\ cloud' = IF ok THEN [cloud EXCEPT ![Head(shENIs)].tagged = TRUE]
                        ELSE cloud
            /\ IF ok THEN ShNext
               ELSE shPc' = "exit" /\ UNCHANGED shENIs
    /\ UNCHANGED <<shScript, shTodo>>
    /\ shFrame

NextSh ==
    \/ ShGenerate
    \/ ShRegion
    \/ ShENI
    \/ ShDetach
    \/ ShDelete
    \/ ShModify
    \/ ShRetryDelete
    \/ ShTag

SpecSh == InitSh /\ [][NextSh]_vars

\* C9: a generated cleanup hook built with dryRun=true issues no detach,
\* delete, modify or create-tags call when it runs.
C9_DryRunScriptMutatesNothing ==
    (shPc # "generate" /\ shIn.dryRun) => MutatingCalls = {}

(***************************************************************************)
(* Claims checked under SpecSh: failures while a script runs               *)
(***************************************************************************)

\* The script has ended: its last command returned, or set -e ended it
ShEnded == shPc \in {"done", "exit"}

\* The candidates the script has not reached: the rest of the current
\* region's list and the available interfaces of the regions still to
\* scan, reserved descriptions apart
ShRemaining ==
    { i \in ENIIds :
        /\ cloud[i].exists
        /\ ~ScriptSkips(Interface(cloud, i))
        /\ \/ shENIs # <<>> /\ i \in Range(Tail(shENIs))
           \/ \E k \in 1..Len(shTodo) : i \in Range(AvailableENIs(cloud, shTodo[k])) }

\* The last provider call is a mutating call that failed
LastCallFailed(apis) ==
    /\ calls # <<>>
    /\ calls[Len(calls)].api \in apis
    /\ ~calls[Len(calls)].ok

\* C11: a failure of a provider call (detach, delete, modify, tag) on one
\* candidate never prevents the remaining candidates from being
\* processed: a script never ends on a failed mutating call while
\* candidates remain.
C11_FailureLeavesNoCandidateBehind ==
    (ShEnded /\ LastCallFailed(MutatingAPIs)) => ShRemaining = {}

\* C12: a failed listing in one region does not abort the scan: when the
\* script has ended every requested region has been listed.
C12_EveryRegionListed ==
    ShEnded =>
        \A k \in 1..Len(shIn.regions) :
            \E c \in 1..Len(calls) :
                /\ calls[c].api = "DescribeNetworkInterfaces"
                /\ calls[c].region = shIn.regions[k]

\* C20: when the detach request of a candidate fails, no delete or
\* security-group modification is issued for that candidate afterwards,
\* and the remaining candidates are still processed.
C20_DetachFailureIsLocal ==
    \A k \in 1..Len(calls) :
        (calls[k].api = "DetachNetworkInterface" /\ ~calls[k].ok) =>
            /\ \A j \in (k + 1)..Len(calls) :
                  calls[j].id = calls[k].id =>
                      calls[j].api \notin {"DeleteNetworkInterface",
                                           "ModifyNetworkInterfaceAttribute"}
            /\ (ShEnded /\ k = Len(calls)) => ShRemaining = {}

(***************************************************************************)
(* Claims checked under Spec: errors of the Go resource                    *)
(***************************************************************************)

\* The requested regions whose listing did not answer in this operation
DetectFailedRegions ==
    { r \in Range(input.Regions) :
        ~\E k \in 1..Len(calls) : calls[k] = DescribeCall(r) }

\* A Create or Update has returned after running detection and cleanup
CleanupReturned ==
    pc = "idle" /\ op.name \in {"Create", "Update"} /\ ~op.preview

\* C13: when the client or the listing of a region failed, what the
\* operation returns carries an error for that region: the call fails, or
\* the cleanup result names the region among its errors.
C13_FailedRegionReported ==
    CleanupReturned =>
        \A r \in DetectFailedRegions :
            \/ ret.err # ""
            \/ \E k \in 1..Len(result.Errors) : result.Errors[k].region = r

\* C14: a Create or Update called with an empty regions list fails with a
\* validation error before any provider call.
C14_EmptyRegionsRejected ==
    (CleanupReturned /\ Len(input.Regions) = 0) =>
        /\ ret.err # ""
        /\ calls = <<>>

(***************************************************************************)
(* Claims checked under Spec: the order of the calls on one candidate      *)
(***************************************************************************)

\* The operation is a Create or Update in full cleanup mode
FullMode ==
    /\ op.name \in {"Create", "Update"} /\ ~op.preview
    /\ ~input.DryRun /\ ~input.DisassociateOnly

\* The positions of the log before position k that hold a call of the
\* given kind on the same candidate as call k
Earlier(k, api) ==
    { j \in 1..(k - 1) : calls[j].api = api /\ calls[j].id = calls[k].id }

RemovedAfterFailedDelete(k) ==
    /\ calls[k].api = "ModifyNetworkInterfaceAttribute" /\ calls[k].ok
    /\ \E j \in Earlier(k, "DeleteNetworkInterface") : ~calls[j].ok

NoFilters ==
    /\ input.SecurityGroupId = ""
    /\ input.SkipReservedDescriptions = <<>>
    /\ input.IncludeTagKeys = <<>>
    /\ input.ExcludeTagKeys = <<>>

\* The calls of one kind issued for one candidate in the current operation
CallsOn(id, api) ==
    { k \in 1..Len(calls) : calls[k].api = api /\ calls[k].id = id }

\* The outcome records of one candidate
Records(id) ==
    { k \in 1..Len(result.CleanedENIs) : result.CleanedENIs[k].ID = id }

NotAttached(eni) ==
    ~(eni.AttachmentState # "" /\ eni.AttachmentState # "detached"
      /\ eni.AttachmentID # "")

Candidates == { orphanedENIs[n] : n \in 1..Len(orphanedENIs) }

ErrorIds(kinds) ==
    { result.Errors[k].id : k \in { j \in 1..Len(result.Errors) :
                                       result.Errors[j].what \in kinds } }

\* The candidates of the regions whose client configuration failed: each
\* is counted as a failure without a call
ConfigFailedIds ==
    { eni.ID : eni \in { e \in Candidates :
                 \E j \in 1..Len(result.Errors) :
                    /\ result.Errors[j].what = "config"
                    /\ result.Errors[j].region = e.Region } }

\* Call k is a refused delete
DeleteFailed(k) == calls[k].api = "DeleteNetworkInterface" /\ ~calls[k].ok

ModifyFailed(k) ==
    calls[k].api = "ModifyNetworkInterfaceAttribute" /\ ~calls[k].ok

\* C19: when the security-group modification of a candidate fails, the
\* next call is a manual-review tagging of that candidate, no detach and no
\* delete is issued for it, it has no outcome record, and a returned
\* cleanup counts it as one failure: the success count is the number of
\* outcome records and the skipped count is the number of candidates that
\* received no call in a region that could be configured.
C19_ModifyFailureTaggedAndCounted ==
    /\ \A k \in 1..Len(calls) :
          ModifyFailed(k) =>
              /\ IF k = Len(calls) THEN pc = "tagModify"
                 ELSE /\ calls[k + 1].api = "CreateTags"
                      /\ calls[k + 1].id = calls[k].id
              /\ CallsOn(calls[k].id, "DetachNetworkInterface") = {}
              /\ CallsOn(calls[k].id, "DeleteNetworkInterface") = {}
              /\ Records(calls[k].id) = {}
              /\ calls[k].id \in ErrorIds({"modify"})
    /\ (pc = "idle" /\ RanToEnd(op) /\ ret.err = "") =>
          /\ result.FailureCount =
                Cardinality(ConfigFailedIds \cup ErrorIds({"modify", "detach"}))
          /\ result.SuccessCount = Len(result.CleanedENIs)
          /\ result.SkippedCount =
                Cardinality({ eni.ID : eni \in
                    { e \in Candidates :
                        /\ e.ID \notin ConfigFailedIds
                        /\ CallsOn(e.ID, "ModifyNetworkInterfaceAttribute") = {} } })

\* C19 witness: a cleanup has returned after a refused modification, the
\* tagging that followed it and the processing of another candidate.
C19_Witness ==
    /\ pc = "idle" /\ RanToEnd(op)
    /\ \E k \in 1..(Len(calls) - 2) :
         /\ ModifyFailed(k)
         /\ calls[k + 1].api = "CreateTags"
         /\ calls[k + 2].id # calls[k].id

(***************************************************************************)
(* Claims checked under SpecCl: CleanupOrphanedENIs called on its own      *)
(***************************************************************************)

\* The call has returned its result
ClReturned == pc = "idle" /\ op.name = "CleanupOrphanedENIs"

HasTarget(eni) == input.SecurityGroupId \in Range(eni.SecurityGroups)

\* The position of a group in the candidate's groups
PositionIn(eni, sg) ==
    CHOOSE n \in 1..Len(eni.SecurityGroups) : eni.SecurityGroups[n] = sg

\* sub is groups without the target: nothing else dropped, nothing added,
\* the order kept
IsGroupsMinusTarget(sub, eni) ==
    /\ Range(sub) = Range(eni.SecurityGroups) \ {input.SecurityGroupId}
    /\ Len(sub) = Len(eni.SecurityGroups) - 1
    /\ \A a, b \in 1..Len(sub) :
          a < b => PositionIn(eni, sub[a]) < PositionIn(eni, sub[b])

\* What is submitted when nothing remains: the default if one is
\* configured, else the empty set
WhenNoneRemain ==
    IF input.DefaultSecurityGroupId # "" THEN <<input.DefaultSecurityGroupId>>
    ELSE <<>>

\* C21: with a target security group, every modification submitted for a
\* candidate that has the target carries the candidate's groups minus
\* exactly the target, the others kept in order (when none is left, the
\* empty-set rule of C22 applies); a candidate without the target receives
\* no provider call, has no error and no outcome record, and a returned
\* call that was no dry run counts exactly these candidates as skipped.
C21_OnlyTargetRemoved ==
    input.SecurityGroupId # "" =>
        /\ \A eni \in Candidates :
              IF HasTarget(eni)
              THEN \A k \in CallsOn(eni.ID, "ModifyNetworkInterfaceAttribute") :
                     IF Len(eni.SecurityGroups) > 1
                     THEN IsGroupsMinusTarget(calls[k].groups, eni)
                     ELSE calls[k].groups = WhenNoneRemain
              ELSE /\ \A k \in 1..Len(calls) : calls[k].id # eni.ID
                   /\ Records(eni.ID) = {}
                   /\ eni.ID \notin ErrorIds({"modify", "detach", "delete"})
        /\ (ClReturned /\ ~input.DryRun) =>
              /\ result.SkippedCount =
                    Cardinality({ e.ID : e \in { c \in Candidates :
                        ~HasTarget(c) /\ c.ID \notin ConfigFailedIds } })
              /\ result.FailureCount =
                    Cardinality(ConfigFailedIds \cup ErrorIds({"modify", "detach"}))

\* C21 witness: a call with a target has returned after modifying a
\* candidate that keeps two other groups and skipping a candidate without
\* the target.
C21_Witness ==
    /\ ClReturned /\ input.SecurityGroupId # "" /\ result.SkippedCount = 1
    /\ \E eni \in Candidates :
         /\ Len(eni.SecurityGroups) = 3
         /\ \E k \in CallsOn(eni.ID, "ModifyNetworkInterfaceAttribute") : calls[k].ok
    /\ \E eni \in Candidates : ~HasTarget(eni) /\ eni.ID \notin ConfigFailedIds

\* The removal leaves the candidate no group: every group is removed when
\* no target is set, and the target was its only group otherwise
NoneRemain(eni) ==
    \/ input.SecurityGroupId = ""
    \/ Range(eni.SecurityGroups) \subseteq {input.SecurityGroupId}

\* C22: the group set submitted for a candidate is the singleton of the
\* default security group when the removal leaves no group and a default
\* is configured, the empty set when it leaves no group and no default is
\* configured, and the remaining groups, without the default added, when
\* some remain.
C22_DefaultOnlyWhenEmpty ==
    \A eni \in Candidates :
        \A k \in CallsOn(eni.ID, "ModifyNetworkInterfaceAttribute") :
            IF NoneRemain(eni)
            THEN /\ input.DefaultSecurityGroupId # "" =>
                       calls[k].groups = <<input.DefaultSecurityGroupId>>
                 /\ input.DefaultSecurityGroupId = "" => calls[k].groups = <<>>
            ELSE /\ IsGroupsMinusTarget(calls[k].groups, eni)
                 /\ input.DefaultSecurityGroupId \notin Range(eni.SecurityGroups) =>
                       input.DefaultSecurityGroupId \notin Range(calls[k].groups)
                 /\ cloud[eni.ID].exists /\ calls[k].ok =>
                       cloud[eni.ID].groups = calls[k].groups

\* C22 witness: with a default configured, one call has submitted the
\* default alone for a candidate left without groups and the remaining
\* groups for a candidate that keeps some.
C22_Witness ==
    /\ ClReturned /\ input.DefaultSecurityGroupId # ""
    /\ \E k \in 1..Len(calls) :
         /\ calls[k].api = "ModifyNetworkInterfaceAttribute" /\ calls[k].ok
         /\ calls[k].groups = <<input.DefaultSecurityGroupId>>
    /\ \E k \in 1..Len(calls) :
         /\ calls[k].api = "ModifyNetworkInterfaceAttribute" /\ calls[k].ok
         /\ Len(calls[k].groups) = 2

\* C23: a detach call is issued only for a candidate whose attachment
\* status is neither empty nor "detached" (and whose attachment id is
\* known); a candidate with no attachment or a detached one never
\* receives a detach call, and its delete is not preceded by one.
C23_DetachOnlyWhenAttached ==
    \A eni \in Candidates :
        /\ CallsOn(eni.ID, "DetachNetworkInterface") # {} =>
              /\ eni.AttachmentState \notin {"", "detached"}
              /\ eni.AttachmentID # ""
        /\ eni.AttachmentState \in {"", "detached"} =>
              \A k \in 1..Len(calls) :
                  calls[k].id = eni.ID => calls[k].api # "DetachNetworkInterface"

\* C23 witness: one call has detached an attached candidate and deleted a
\* candidate whose attachment was detached already.
C23_Witness ==
    /\ ClReturned
    /\ \E eni \in Candidates :
         /\ eni.AttachmentState = "attached"
         /\ \E k \in CallsOn(eni.ID, "DetachNetworkInterface") : calls[k].ok
    /\ \E eni \in Candidates :
         /\ eni.AttachmentState = "detached" /\ eni.AttachmentID # ""
         /\ \E k \in CallsOn(eni.ID, "DeleteNetworkInterface") : calls[k].ok

\* The candidate is one the cleanup detaches before it deletes
NeedsDetach(eni) ==
    /\ eni.AttachmentState \notin {"", "detached"}
    /\ eni.AttachmentID # ""

\* C24: for a candidate that needs a detach, every delete call comes after
\* a detach call of that candidate that succeeded (the wait that follows
\* the detach is part of the detach step), and no detach follows a delete.
C24_DetachPrecedesDelete ==
    \A eni \in Candidates :
        NeedsDetach(eni) =>
            /\ \A k \in CallsOn(eni.ID, "DeleteNetworkInterface") :
                  \E j \in Earlier(k, "DetachNetworkInterface") : calls[j].ok
            /\ \A k \in CallsOn(eni.ID, "DetachNetworkInterface") :
                  Earlier(k, "DeleteNetworkInterface") = {}
            /\ pc = "delete" /\ Head(regionENIs) = eni =>
                  \E j \in CallsOn(eni.ID, "DetachNetworkInterface") : calls[j].ok

\* C24 witness: the call has issued a delete for a candidate it had
\* detached.
C24_Witness ==
    \E eni \in Candidates :
        /\ NeedsDetach(eni)
        /\ \E k \in CallsOn(eni.ID, "DeleteNetworkInterface") :
              Earlier(k, "DetachNetworkInterface") # {}

(***************************************************************************)
(* Claims checked under SpecSh: the manual-review tagging                  *)
(***************************************************************************)

\* C25: a failure of the manual-review tagging call never escalates: the
\* script does not end on it, and goes on to the remaining interfaces and
\* regions.
C25_TagFailureNeverEscalates ==
    LastCallFailed({"CreateTags"}) =>
        /\ shPc # "exit"
        /\ ShEnded => ShRemaining = {}

(***************************************************************************)
(* Claims checked under Spec: the disassociate-only mode                   *)
(***************************************************************************)

\* C26: while a cleanup runs with disassociateOnly (a Create or Update
\* with the flag, or any Delete), it issues no detach and no delete; its
\* mutating calls are security-group modifications and, right after a
\* failed modification, the manual-review tagging of that candidate.
C26_DisassociateOnlyNeverDeletes ==
    (RanToEnd(op) /\ (op.name = "Delete" \/ input.DisassociateOnly)) =>
        \A k \in MutatingCalls :
            /\ calls[k].api \in {"ModifyNetworkInterfaceAttribute", "CreateTags"}
            /\ calls[k].api = "CreateTags" =>
                  /\ k > 1
                  /\ ModifyFailed(k - 1)
                  /\ calls[k - 1].id = calls[k].id
            /\ cloud[calls[k].id].exists

\* C26 witness: a disassociate-only Create or Update has returned after
\* modifying the groups of an attached candidate and tagging another whose
\* modification failed.
C26_Witness ==
    /\ CleanupReturned /\ input.DisassociateOnly
    /\ \E eni \in Candidates :
         /\ NeedsDetach(eni)
         /\ \E k \in CallsOn(eni.ID, "ModifyNetworkInterfaceAttribute") : calls[k].ok
    /\ \E k \in MutatingCalls : calls[k].api = "CreateTags"

(***************************************************************************)
(* Claims checked under SpecCl: concurrency, cancellation, re-validation   *)
(***************************************************************************)

\* The candidates under way right after call k: their first provider call
\* is among the first k, their last one comes later
InProgressAfter(k) ==
    { eni.ID : eni \in { e \in Candidates :
        /\ \E j \in 1..k : calls[j].id = e.ID
        /\ \E j \in (k + 1)..Len(calls) : calls[j].id = e.ID } }

\* C27: at every moment of a cleanup call at most one candidate is between
\* its first and its last provider call: the candidates are processed one
\* after the other, which respects every concurrency limit of one or more.
C27_OneCandidateAtATime ==
    \A k \in 1..Len(calls) : Cardinality(InProgressAfter(k)) <= 1

\* C27 witness: the call has returned after issuing two or more provider
\* calls for each of two candidates of one region.
C27_Witness ==
    /\ ClReturned
    /\ \E e1, e2 \in Candidates :
         /\ e1.ID # e2.ID /\ e1.Region = e2.Region
         /\ \A e \in {e1, e2} :
               Cardinality({ k \in 1..Len(calls) : calls[k].id = e.ID }) >= 2

\* C28: once the caller's context is done, no provider call is issued for
\* a candidate whose processing had not started: a step taken at the head
\* of the loop body with the context done issues no call.
C28_NoNewCandidateAfterCancel ==
    [][(ctxDone /\ pc = "eni") => calls' = calls]_vars

(***************************************************************************)
(* Claims checked under Spec: re-validation                                *)
(***************************************************************************)

DestructiveAPIs ==
    {"ModifyNetworkInterfaceAttribute", "DetachNetworkInterface",
     "DeleteNetworkInterface"}

\* C29: every destructive call on a candidate comes after a read of that
\* very interface from the provider, issued in the same operation after
\* the listing of the detection.
C29_RevalidatedBeforeDestructiveCall ==
    \A k \in 1..Len(calls) :
        calls[k].api \in DestructiveAPIs =>
            \E j \in 1..(k - 1) :
                /\ calls[j].api = "DescribeNetworkInterfaces"
                /\ calls[j].id = calls[k].id

(***************************************************************************)
(* Claims checked under FairSpecCl: termination                            *)
(***************************************************************************)

CallCount(id, api) == Cardinality(CallsOn(id, api))

\* Every candidate has received at most one detach, two deletes, one
\* group modification and one tagging call
BoundedCalls ==
    \A eni \in Candidates :
        /\ CallCount(eni.ID, "DetachNetworkInterface") <= 1
        /\ CallCount(eni.ID, "DeleteNetworkInterface") <= 2
        /\ CallCount(eni.ID, "ModifyNetworkInterfaceAttribute") <= 1
        /\ CallCount(eni.ID, "CreateTags") <= 1

\* Every candidate has a terminal outcome: a record, a failure or a skip
AllAccounted ==
    result.SuccessCount + result.FailureCount + result.SkippedCount
        = Cardinality(Candidates)

\* C30: for every candidate list and every pattern of provider successes
\* and failures, the cleanup call eventually returns, with every candidate
\* accounted for, and no candidate ever receives more than one detach, two
\* deletes, one group modification and one tagging call.
C30_ReturnsAfterBoundedCalls ==
    /\ []BoundedCalls
    /\ <>(ClReturned /\ AllAccounted)

\* C30 witness: the call has returned although every provider call it
\* made for some candidate failed.
C30_Witness ==
    /\ ClReturned /\ AllAccounted
    /\ \E eni \in Candidates :
         /\ \E k \in 1..Len(calls) : calls[k].id = eni.ID
         /\ \A k \in 1..Len(calls) : calls[k].id = eni.ID => ~calls[k].ok

(***************************************************************************)
(* Claims checked under SpecTS: the exclude-tag scenario                   *)
(***************************************************************************)

\* The positions of the candidates that carry the exclude tag key
TsExcluded ==
    { i \in 1..Len(tsIn.enis) : T_DoNotDelete \in DOMAIN tsIn.enis[i].tags }

\* Two candidates, excludeTagKeys = [DoNotDelete], no other filter, and
\* exactly one candidate carries the key
TsExcludeScenario ==
    /\ Len(tsIn.enis) = 2
    /\ tsIn.options.ExcludeTagKeys = <<T_DoNotDelete>>
    /\ tsIn.options.IncludeTagKeys = <<>>
    /\ tsIn.options.olderThanDays = 0
    /\ Cardinality(TsExcluded) = 1

TsProcessed == Range(tsOut.cleanedENIs) \cup Range(tsOut.failedENIs)

SecondRun ==
    /\ op.n = 2 /\ op.name = "Update" /\ ~op.preview
    /\ prevRun.op.name = "Create" /\ ~prevRun.op.preview
    /\ prevRun.err = ""
    /\ prevRun.input = input

\* No call of the first run failed: every region answered the listing
\* and loaded its configuration, every mutating call succeeded
FirstRunClean == prevRun.faults = 0 /\ prevRun.regionErrs = {}

\* Every interface exists, and carries the groups, as when the running
\* operation began
AsFirstRunLeft ==
    \A i \in ENIIds :
        /\ cloud[i].exists = cloud0[i].exists
        /\ cloud[i].groups = cloud0[i].groups

DeleteReturned == pc = "idle" /\ op.name = "Delete"

\* C33: whenever Delete has returned, it returned no error and the
\* resource is gone, whatever failed in detection or in the cleanup.
C33_DeleteReturnsNil ==
    DeleteReturned => (ret.err = "" /\ resource = "deleted")

\* A Delete that returned although a modification of its cleanup failed
C33_Witness ==
    /\ DeleteReturned /\ ret.err = ""
    /\ regionErrs # {}
    /\ \E k \in MutatingCalls :
          calls[k].api = "ModifyNetworkInterfaceAttribute" /\ ~calls[k].ok

PreviewReturned ==
    pc = "idle" /\ op.name \in {"Create", "Update"} /\ op.preview

\* The returned state carries the counts and the cleaned list of the
\* stored state
CountsOfOldState ==
    /\ ret.state.SuccessCount = state.SuccessCount
    /\ ret.state.FailureCount = state.FailureCount
    /\ ret.state.SkippedCount = state.SkippedCount
    /\ ret.state.CleanedENIs = state.CleanedENIs

\* C35: a preview Create or Update issues no provider call and changes
\* nothing at the provider; a preview Update, and a preview Create given
\* at least one region, return without error a state whose input fields
\* are the arguments; the state of a preview Update carries the counts
\* and the cleaned list of the old state.
C35_PreviewEchoesArguments ==
    PreviewReturned =>
        /\ calls = <<>>
        /\ cloud = cloud0
        /\ (op.name = "Update" \/ Len(input.Regions) > 0) =>
              /\ ret.err = ""
              /\ ArgsOf(ret.state) = input
        /\ op.name = "Update" => CountsOfOldState

\* A preview Update over a stored state with a cleaned interface
C35_Witness ==
    /\ PreviewReturned /\ op.name = "Update"
    /\ state.SuccessCount > 0 /\ Len(state.CleanedENIs) > 0
    /\ CountsOfOldState
    /\ ArgsOf(ret.state) = input

\* C35 as stated: for every argument value
C35_AsStated ==
    PreviewReturned =>
        /\ calls = <<>>
        /\ ArgsOf(ret.state) = input
        /\ op.name = "Update" => CountsOfOldState

(***************************************************************************)
(* Claims checked under Spec: the submitted group set                      *)
(***************************************************************************)

\* C36: in target mode the group set of every successful modification
\* does not contain the target group.
C36_SubmittedSetExcludesTarget ==
    (RanToEnd(op) /\ input.SecurityGroupId # "") =>
        \A k \in 1..Len(calls) :
            (calls[k].api = "ModifyNetworkInterfaceAttribute" /\ calls[k].ok)
            => input.SecurityGroupId \notin Range(calls[k].groups)

(***************************************************************************)
(* Claims checked under Spec: a region whose configuration does not load   *)
(***************************************************************************)

ConfigErrors(r) ==
    { j \in 1..Len(result.Errors) :
        result.Errors[j].what = "config" /\ result.Errors[j].region = r }

ConfigFailedRegions ==
    { r \in AllRegions : ConfigErrors(r) # {} }

\* No call for the candidates of a failed region, one error per failed
\* region, and in a real run every other candidate is worked on
ConfigFailureContained ==
    /\ \A k \in MutatingCalls : calls[k].id \notin ConfigFailedIds
    /\ \A r \in ConfigFailedRegions : Cardinality(ConfigErrors(r)) = 1
    /\ ~input.DryRun =>
          \A eni \in Candidates :
              (/\ eni.ID \notin ConfigFailedIds
               /\ Plan(eni, input.SecurityGroupId,
                       input.DefaultSecurityGroupId).sgFound)
              => CallsOn(eni.ID, "ModifyNetworkInterfaceAttribute") # {}

\* C37: when the configuration of a region does not load, no call is
\* issued for its candidates, one error is recorded for it, the other
\* candidates are worked on, and its candidates are counted as failures
\* in a real run and as skipped in a dry run.
C37_ConfigFailureAccountedByMode ==
    (CleanupReturned /\ ConfigFailedRegions # {}) =>
        /\ ConfigFailureContained
        /\ IF input.DryRun
           THEN /\ result.FailureCount = 0
                /\ result.SkippedCount = Cardinality(Candidates)
           ELSE result.FailureCount =
                    Cardinality(ConfigFailedIds)
                    + Cardinality(ErrorIds({"modify", "detach"}))

(***************************************************************************)
(* Claims checked under SpecCl: the manual-review tagging                  *)
(***************************************************************************)

\* Call k is a tagging call that follows a failed mutating call on the
\* same candidate
TagFollowsFailure(k) ==
    \E j \in 1..(k - 1) :
        /\ calls[j].id = calls[k].id
        /\ calls[j].api \in MutatingAPIs \ {"CreateTags"}
        /\ ~calls[j].ok

\* The outcome records of the candidates deleted or disassociated
CleanOutcomes ==
    { j \in 1..Len(result.CleanedENIs) :
        result.CleanedENIs[j].ActionTaken
            # "disassociated from security groups (delete failed)" }

\* C38: every tagging call follows a failed mutating call on the same
\* candidate, no candidate is tagged twice, and a candidate recorded as
\* deleted or as disassociated has received no tagging call.
C38_TagOnlyAfterFailureAndOnce ==
    /\ \A k \in 1..Len(calls) :
          calls[k].api = "CreateTags" => TagFollowsFailure(k)
    /\ \A eni \in Candidates : CallCount(eni.ID, "CreateTags") <= 1
    /\ \A j \in CleanOutcomes :
          CallsOn(result.CleanedENIs[j].ID, "CreateTags") = {}

\* A call that deleted one candidate and tagged the other, whose delete
\* had failed
C38_Witness ==
    /\ ClReturned
    /\ \E j \in CleanOutcomes : result.CleanedENIs[j].ActionTaken = "deleted"
    /\ \E k \in 1..Len(calls) :
          /\ calls[k].api = "CreateTags"
          /\ k > 1 /\ DeleteFailed(k - 1)

=============================================================================
